---- MODULE Spec2Model ----
(***************************************************************************)
(* Model of the admin-form-questions edge function                         *)
(* (supabase/functions/admin-form-questions/index.ts): the bearer-token    *)
(* verifier verifyAdminToken and the request handler passed to serve().    *)
(*                                                                         *)
(* Text is a sequence of code points (natural numbers), so that the        *)
(* conversions the verifier relies on (base64, UTF-8, JSON, hex) are       *)
(* computed and not assumed.                                               *)
(***************************************************************************)
EXTENDS Integers, Sequences, FiniteSets, TLC

(***************************************************************************)
(* Text                                                                    *)
(***************************************************************************)

\* The printable ASCII characters, code points 32..126, in order (code point 96,
\* the grave accent, is spelled out: the character cannot stand in a string here).
PrintableAscii ==
    << " ", "!", "\"", "#", "$", "%", "&", "'", "(", ")", "*", "+", ",", "-", ".", "/",
       "0", "1", "2", "3", "4", "5", "6", "7", "8", "9", ":", ";", "<", "=", ">", "?",
       "@", "A", "B", "C", "D", "E", "F", "G", "H", "I", "J", "K", "L", "M", "N", "O",
       "P", "Q", "R", "S", "T", "U", "V", "W", "X", "Y", "Z", "[", "\\", "]", "^", "_",
       "grave", "a", "b", "c", "d", "e", "f", "g", "h", "i", "j", "k", "l", "m", "n", "o",
       "p", "q", "r", "s", "t", "u", "v", "w", "x", "y", "z", "{", "|", "}", "~" >>

\* The code point of a printable ASCII character.
Code(c) ==
    31 + (CHOOSE i \in 1..Len(PrintableAscii) : PrintableAscii[i] = c)

\* The characters the code below names.
Quote == Code("\"")
Backslash == Code("\\")
Slash == Code("/")
Colon == Code(":")
Comma == Code(",")
LeftBrace == Code("{")
RightBrace == Code("}")
Minus == Code("-")
Plus == Code("+")
Digit0 == Code("0")
Digit9 == Code("9")
LowerA == Code("a")
LowerF == Code("f")
LowerZ == Code("z")
UpperA == Code("A")
UpperF == Code("F")
LowerB == Code("b")
LowerN == Code("n")
LowerR == Code("r")
LowerT == Code("t")
LowerU == Code("u")
FullStop == Code(".")
EqualsSign == Code("=")
Digit3 == Code("3")
UpperZ == Code("Z")

\* The text spelled by a tuple of one-character strings.
Str(t) ==
    [i \in 1..Len(t) |-> Code(t[i])]

\* The elements of a sequence.
Elements(seq) == { seq[i] : i \in 1..Len(seq) }

\* The concatenation of a sequence of texts.
RECURSIVE Concat(_)
Concat(ts) ==
    IF ts = <<>> THEN <<>> ELSE Head(ts) \o Concat(Tail(ts))

\* Array.prototype.indexOf on a text: the first position of c from `from`, 0 if none.
IndexOf(s, c, from) ==
    LET hits == {i \in from..Len(s) : s[i] = c}
    IN IF hits = {} THEN 0 ELSE CHOOSE i \in hits : \A j \in hits : i <= j

\* The UTF-8 bytes of one code point of the Basic Multilingual Plane.
utf8Bytes(c) ==
    IF c < 128 THEN <<c>>
    ELSE IF c < 2048 THEN <<192 + (c \div 64), 128 + (c % 64)>>
    ELSE <<224 + (c \div 4096), 128 + ((c \div 64) % 64), 128 + (c % 64)>>

\* TextEncoder.encode: the UTF-8 bytes of a text (computed by halves).
RECURSIVE utf8Encode(_)
utf8Encode(s) ==
    IF s = <<>> THEN <<>>
    ELSE IF Len(s) = 1 THEN utf8Bytes(s[1])
    ELSE LET h == Len(s) \div 2
         IN utf8Encode(SubSeq(s, 1, h)) \o utf8Encode(SubSeq(s, h + 1, Len(s)))

(***************************************************************************)
(* base64                                                                  *)
(***************************************************************************)

\* The base64 alphabet, value 0 first.
Base64Alphabet ==
    Str(<< "A", "B", "C", "D", "E", "F", "G", "H", "I", "J", "K", "L", "M", "N", "O", "P",
           "Q", "R", "S", "T", "U", "V", "W", "X", "Y", "Z", "a", "b", "c", "d", "e", "f",
           "g", "h", "i", "j", "k", "l", "m", "n", "o", "p", "q", "r", "s", "t", "u", "v",
           "w", "x", "y", "z", "0", "1", "2", "3", "4", "5", "6", "7", "8", "9", "+", "/" >>)

PadChar == EqualsSign

\* The characters atob drops before decoding: TAB, LF, FF, CR, SPACE.
IsAsciiWhitespace(c) ==
    c \in {9, 10, 12, 13, 32}

\* The value of a base64 character (its index in Base64Alphabet), -1 for a
\* character outside the alphabet.
Base64Value(c) ==
    IF c >= UpperA /\ c <= UpperZ THEN c - UpperA
    ELSE IF c >= LowerA /\ c <= LowerZ THEN c - LowerA + 26
    ELSE IF c >= Digit0 /\ c <= Digit9 THEN c - Digit0 + 52
    ELSE IF c = Plus THEN 62
    ELSE IF c = Slash THEN 63
    ELSE -1

\* base64 of a byte sequence, padded with "=" (the encoding the token issuer
\* applies): character q of the group of three bytes that starts after byte b.
base64Encode(bytes) ==
    LET n       == Len(bytes)
        at(i)   == IF i <= n THEN bytes[i] ELSE 0
        ch(v)   == Base64Alphabet[v + 1]
        out(j)  ==
            LET b == 3 * ((j - 1) \div 4)
                q == (j - 1) % 4
            IN IF q = 0 THEN ch(at(b + 1) \div 4)
               ELSE IF q = 1 THEN ch((at(b + 1) % 4) * 16 + (at(b + 2) \div 16))
               ELSE IF q = 2 THEN
                   IF b + 2 > n THEN PadChar
                   ELSE ch((at(b + 2) % 16) * 4 + (at(b + 3) \div 64))
               ELSE IF b + 3 > n THEN PadChar ELSE ch(at(b + 3) % 64)
    IN [j \in 1..(4 * ((n + 2) \div 3)) |-> out(j)]

\* The bytes spelled by a sequence of base64 values; the bits left over by a
\* final group of 2 or 3 values are discarded, whatever they are.
DecodeValues(v) ==
    LET n      == Len(v)
        count  == 3 * (n \div 4) + (IF n % 4 = 0 THEN 0 ELSE (n % 4) - 1)
        out(i) ==
            LET b == 4 * ((i - 1) \div 3)
                r == (i - 1) % 3
            IN IF r = 0 THEN v[b + 1] * 4 + (v[b + 2] \div 16)
               ELSE IF r = 1 THEN (v[b + 2] % 16) * 16 + (v[b + 3] \div 4)
               ELSE (v[b + 3] % 4) * 64 + v[b + 4]
    IN [i \in 1..count |-> out(i)]

\* atob: the forgiving base64 decode. ok = FALSE is the InvalidCharacterError it
\* throws; otherwise text holds one code point (0..255) per decoded byte.
atob(data) ==
    LET stripped == SelectSeq(data, LAMBDA c : ~IsAsciiWhitespace(c))
        n        == Len(stripped)
        pads     == IF n > 0 /\ n % 4 = 0 /\ stripped[n] = PadChar
                    THEN IF stripped[n - 1] = PadChar THEN 2 ELSE 1
                    ELSE 0
        body     == SubSeq(stripped, 1, n - pads)
        values   == [i \in 1..Len(body) |-> Base64Value(body[i])]
    IN IF Len(body) % 4 = 1 \/ \E i \in 1..Len(body) : values[i] < 0
       THEN [ok |-> FALSE, text |-> <<>>]
       ELSE [ok |-> TRUE, text |-> DecodeValues(values)]

(***************************************************************************)
(* JSON values and JSON.parse                                              *)
(*                                                                         *)
(* A value is a record [t, s, n, m]: t its JavaScript type, s the text of  *)
(* a string, n the value of a number or boolean, m the members of an       *)
(* object as a sequence of <<key, value>> in source order.                 *)
(* JSON.parse is computed for the grammar of objects, strings (escapes     *)
(* included), integers and the three literals; arrays, fractions and       *)
(* exponents occur in no text of this model.                               *)
(***************************************************************************)

JString(s) == [t |-> "string", s |-> s, n |-> 0, m |-> <<>>]
JNumber(n) == [t |-> "number", s |-> <<>>, n |-> n, m |-> <<>>]
JBoolean(b) == [t |-> "boolean", s |-> <<>>, n |-> IF b THEN 1 ELSE 0, m |-> <<>>]
JObject(m) == [t |-> "object", s |-> <<>>, n |-> 0, m |-> m]
JNull == [t |-> "null", s |-> <<>>, n |-> 0, m |-> <<>>]
JUndefined == [t |-> "undefined", s |-> <<>>, n |-> 0, m |-> <<>>]

\* A parser result: ok = FALSE is a SyntaxError; pos is the next unread position.
ParseFail == [ok |-> FALSE, v |-> JUndefined, pos |-> 0]
ParseOk(v, pos) == [ok |-> TRUE, v |-> v, pos |-> pos]

IsDigit(c) == c >= Digit0 /\ c <= Digit9

IsJsonWhitespace(c) == c \in {9, 10, 13, 32}

RECURSIVE SkipWs(_, _)
SkipWs(s, i) ==
    IF i <= Len(s) /\ IsJsonWhitespace(s[i]) THEN SkipWs(s, i + 1) ELSE i

\* Whether text s holds the characters of w at position i.
HasAt(s, i, w) ==
    /\ i + Len(w) - 1 <= Len(s)
    /\ \A k \in 1..Len(w) : s[i + k - 1] = w[k]

\* The value of a hexadecimal digit, -1 for any other character.
HexDigitValue(c) ==
    IF IsDigit(c) THEN c - Digit0
    ELSE IF c >= LowerA /\ c <= LowerF THEN c - LowerA + 10
    ELSE IF c >= UpperA /\ c <= UpperF THEN c - UpperA + 10
    ELSE -1

\* The character an escape sequence starting at s[i] = "\" stands for, and the
\* position after it.
ParseEscape(s, i) ==
    IF i + 1 > Len(s) THEN ParseFail
    ELSE LET e == s[i + 1]
         IN IF e \in {Quote, Backslash, Slash} THEN ParseOk(e, i + 2)
            ELSE IF e = LowerB THEN ParseOk(8, i + 2)
            ELSE IF e = LowerF THEN ParseOk(12, i + 2)
            ELSE IF e = LowerN THEN ParseOk(10, i + 2)
            ELSE IF e = LowerR THEN ParseOk(13, i + 2)
            ELSE IF e = LowerT THEN ParseOk(9, i + 2)
            ELSE IF e = LowerU /\ i + 5 <= Len(s)
                    /\ \A k \in 2..5 : HexDigitValue(s[i + k]) >= 0
                 THEN ParseOk(HexDigitValue(s[i + 2]) * 4096 + HexDigitValue(s[i + 3]) * 256
                              + HexDigitValue(s[i + 4]) * 16 + HexDigitValue(s[i + 5]), i + 6)
            ELSE ParseFail

RECURSIVE ParseChars(_, _, _)

\* A string literal continued after the escape sequence e.
AfterEscape(s, e, acc) ==
    IF e.ok THEN ParseChars(s, e.pos, Append(acc, e.v)) ELSE ParseFail

\* The characters of a string literal from position i (after the opening quote) up
\* to the closing quote.
ParseChars(s, i, acc) ==
    IF i > Len(s) THEN ParseFail
    ELSE IF s[i] = Quote THEN ParseOk(acc, i + 1)
    ELSE IF s[i] < 32 THEN ParseFail
    ELSE IF s[i] = Backslash THEN AfterEscape(s, ParseEscape(s, i), acc)
    ELSE ParseChars(s, i + 1, Append(acc, s[i]))

ParseString(s, i) ==
    IF i <= Len(s) /\ s[i] = Quote THEN ParseChars(s, i + 1, <<>>) ELSE ParseFail

RECURSIVE ParseDigits(_, _, _)
ParseDigits(s, i, acc) ==
    IF i <= Len(s) /\ IsDigit(s[i])
    THEN ParseDigits(s, i + 1, acc * 10 + (s[i] - Digit0))
    ELSE ParseOk(acc, i)

\* The integer literal whose digits start at j, negated if neg.
DigitsFrom(s, j, neg, d) ==
    ParseOk(JNumber(IF neg THEN 0 - d.v ELSE d.v), d.pos)

NumberFrom(s, j, neg) ==
    IF j > Len(s) \/ ~IsDigit(s[j]) THEN ParseFail
    ELSE IF s[j] = Digit0 THEN ParseOk(JNumber(0), j + 1)
    ELSE DigitsFrom(s, j, neg, ParseDigits(s, j, 0))

\* An integer literal: an optional "-", then "0" or a digit string with no leading 0.
ParseNumber(s, i) ==
    IF i <= Len(s) /\ s[i] = Minus THEN NumberFrom(s, i + 1, TRUE)
    ELSE NumberFrom(s, i, FALSE)

NullText == Str(<<"n", "u", "l", "l">>)
TrueText == Str(<<"t", "r", "u", "e">>)
FalseText == Str(<<"f", "a", "l", "s", "e">>)

RECURSIVE ParseValue(_, _)
RECURSIVE ParseMembers(_, _, _)

\* An object after one more member, at position e: its end, or a further member.
AfterMember(s, e, got) ==
    IF e > Len(s) THEN ParseFail
    ELSE IF s[e] = RightBrace THEN ParseOk(JObject(got), e + 1)
    ELSE IF s[e] = Comma THEN ParseMembers(s, SkipWs(s, e + 1), got)
    ELSE ParseFail

\* An object after the value v of the member named key.
AfterValue(s, key, v, acc) ==
    IF v.ok THEN AfterMember(s, SkipWs(s, v.pos), Append(acc, <<key, v.v>>))
    ELSE ParseFail

\* An object after a member's key, at position c where the colon must stand.
AfterKey(s, k, c, acc) ==
    IF ~k.ok \/ c > Len(s) THEN ParseFail
    ELSE IF s[c] # Colon THEN ParseFail
    ELSE AfterValue(s, k.v, ParseValue(s, SkipWs(s, c + 1)), acc)

\* The position after the key k and the whitespace that follows it.
KeyEnd(s, k) ==
    IF k.ok THEN SkipWs(s, k.pos) ELSE 0

KeyParsed(s, k, acc) ==
    AfterKey(s, k, KeyEnd(s, k), acc)

\* The members of an object from position i (at a key) up to the closing brace.
ParseMembers(s, i, acc) ==
    KeyParsed(s, ParseString(s, i), acc)

\* An object from position j, after the opening brace and whitespace.
ObjectFrom(s, j) ==
    IF j <= Len(s) /\ s[j] = RightBrace THEN ParseOk(JObject(<<>>), j + 1)
    ELSE ParseMembers(s, j, <<>>)

StringValue(r) ==
    IF r.ok THEN ParseOk(JString(r.v), r.pos) ELSE ParseFail

ParseValue(s, i) ==
    IF i > Len(s) THEN ParseFail
    ELSE IF s[i] = LeftBrace THEN ObjectFrom(s, SkipWs(s, i + 1))
    ELSE IF s[i] = Quote THEN StringValue(ParseString(s, i))
    ELSE IF HasAt(s, i, NullText) THEN ParseOk(JNull, i + 4)
    ELSE IF HasAt(s, i, TrueText) THEN ParseOk(JBoolean(TRUE), i + 4)
    ELSE IF HasAt(s, i, FalseText) THEN ParseOk(JBoolean(FALSE), i + 5)
    ELSE ParseNumber(s, i)

\* The outcome of JSON.parse given the value r parsed from the start of the text:
\* only whitespace may follow it.
WholeText(text, r) ==
    IF r.ok /\ SkipWs(text, r.pos) = Len(text) + 1
    THEN [ok |-> TRUE, v |-> r.v]
    ELSE [ok |-> FALSE, v |-> JUndefined]

\* JSON.parse: ok = FALSE is the SyntaxError it throws.
JSONparse(text) ==
    WholeText(text, ParseValue(text, SkipWs(text, 1)))

(***************************************************************************)
(* JavaScript semantics the verifier relies on                             *)
(***************************************************************************)

\* value[key] for a value that is neither null nor undefined: the last member
\* of that name of an object, undefined otherwise.
RECURSIVE LastMember(_, _, _)
LastMember(m, key, i) ==
    IF i = 0 THEN JUndefined
    ELSE IF m[i][1] = key THEN m[i][2]
    ELSE LastMember(m, key, i - 1)

GetProp(v, key) ==
    IF v.t = "object" THEN LastMember(v.m, key, Len(v.m)) ELSE JUndefined

\* The number spelled by the digits d, negated if neg; NaN if d is not all digits.
DigitsToNumber(d, neg) ==
    IF d = <<>> \/ \E i \in 1..Len(d) : ~IsDigit(d[i]) THEN [nan |-> TRUE, n |-> 0]
    ELSE [nan |-> FALSE, n |-> IF neg THEN 0 - ParseDigits(d, 1, 0).v ELSE ParseDigits(d, 1, 0).v]

TrimmedToNumber(t) ==
    IF t = <<>> THEN [nan |-> FALSE, n |-> 0]
    ELSE IF t[1] \in {Minus, Plus} THEN DigitsToNumber(Tail(t), t[1] = Minus)
    ELSE DigitsToNumber(t, FALSE)

\* ToNumber of a string of this model: optional surrounding whitespace around an
\* optional sign and decimal digits; the empty string is 0, any other text NaN.
StringToNumber(s) ==
    TrimmedToNumber(SelectSeq(s, LAMBDA c : ~IsJsonWhitespace(c)))

\* ToNumber: undefined and objects are NaN, null is 0, booleans 0 or 1.
ToNumber(v) ==
    IF v.t \in {"number", "boolean"} THEN [nan |-> FALSE, n |-> v.n]
    ELSE IF v.t = "null" THEN [nan |-> FALSE, n |-> 0]
    ELSE IF v.t = "string" THEN StringToNumber(v.s)
    ELSE [nan |-> TRUE, n |-> 0]

IsLess(x, n) == ~x.nan /\ x.n < n

\* v < n for a number n: false when v converts to NaN.
LessThanNumber(v, n) ==
    IsLess(ToNumber(v), n)

\* Whether a value is truthy (!v is false).
Truthy(v) ==
    IF v.t \in {"number", "boolean"} THEN v.n # 0
    ELSE IF v.t = "string" THEN v.s # <<>>
    ELSE v.t = "object"

(***************************************************************************)
(* Digest, hex, split                                                      *)
(***************************************************************************)

\* The length in bytes of a SHA-256 digest.
DigestLen == 32

\* The stand-in hash of bytes[lo..hi]: a hash tree over its halves with multiplier
\* a, each byte weighted by its position (w = 1) or by the square of its position
\* (w = 2); a value in 0..32748.
RECURSIVE TreeHash(_, _, _, _, _)
TreeHash(bytes, lo, hi, a, w) ==
    IF lo > hi THEN 1
    ELSE IF lo = hi THEN ((bytes[lo] + 2) * (IF w = 1 THEN lo + 1 ELSE lo * lo + 1)) % 32749
    ELSE LET mid == (lo + hi) \div 2
         IN (TreeHash(bytes, lo, mid, a, w) * a
             + TreeHash(bytes, mid + 1, hi, a, w) * 7 + (hi - lo)) % 32749

\* crypto.subtle.digest("SHA-256", bytes). The runtime's SHA-256 is stood for by a
\* small hash with the same interface (any bytes in, DigestLen bytes out) that
\* depends on every input byte and its position; DigestSeparates states
\* that it tells apart all the texts this model signs.
digest(bytes) ==
    LET h1 == TreeHash(bytes, 1, Len(bytes), 31337, 1)
        h2 == TreeHash(bytes, 1, Len(bytes), 257, 2)
    IN [k \in 1..DigestLen |->
           IF k = 1 THEN h1 % 256
           ELSE IF k = 2 THEN h1 \div 256
           ELSE IF k = 3 THEN h2 % 256
           ELSE IF k = 4 THEN h2 \div 256
           ELSE (h1 * k + h2) % 256]

HexDigits ==
    Str(<< "0", "1", "2", "3", "4", "5", "6", "7", "8", "9", "a", "b", "c", "d", "e", "f" >>)

\* bytes.map((b) => b.toString(16).padStart(2, "0")).join("")
hex(bytes) ==
    [j \in 1..(2 * Len(bytes)) |->
        LET b == bytes[(j + 1) \div 2]
        IN IF j % 2 = 1 THEN HexDigits[(b \div 16) + 1] ELSE HexDigits[(b % 16) + 1]]

\* String.prototype.split with a one-character separator: every segment, the
\* empty ones included.
RECURSIVE split(_, _)
split(s, sep) ==
    LET i == IndexOf(s, sep, 1)
    IN IF i = 0 THEN << s >>
       ELSE << SubSeq(s, 1, i - 1) >> \o split(SubSeq(s, i + 1, Len(s)), sep)

\* Element k of an array destructuring: undefined past the end of the array.
Element(segments, k) ==
    IF k <= Len(segments) THEN JString(segments[k]) ELSE JUndefined

(***************************************************************************)
(* verifyAdminToken                                                        *)
(*                                                                         *)
(* An outcome records what a call did: returned is the value returned      *)
(* (JNull for "return null"), site the statement that ended the call, log  *)
(* the console line written, threw whether an exception left the function. *)
(***************************************************************************)

Outcome(returned, site, log, threw) ==
    [returned |-> returned, site |-> site, log |-> log, threw |-> threw]

\* The property names of the payload.
AdminIdName == Str(<<"a", "d", "m", "i", "n", "_", "i", "d">>)
UserIdName == Str(<<"u", "s", "e", "r", "_", "i", "d">>)
DivisionIdName == Str(<<"d", "i", "v", "i", "s", "i", "o", "n", "_", "i", "d">>)
ExpName == Str(<<"e", "x", "p">>)

\* An exception raised inside the try block, before any handler runs.
Raised == Outcome(JUndefined, "raised", "", TRUE)

\* The mutated catch clause: the exception is rethrown.
CatchClauseRethrows(o) ==
    o

\* catch (error) { console.error(...); return null; }
CatchClause(o) ==
    Outcome(JNull, "catch", "Token verification error:", FALSE)

\* The mutated expiry test: a credential whose exp equals now is expired.
IsExpiredInclusive(payload, now) ==
    LessThanNumber(GetProp(payload, ExpName), now + 1)

\* payload.exp < Date.now()
IsExpired(payload, now) ==
    LessThanNumber(GetProp(payload, ExpName), now)

\* The mutated signature: the secret is left out of the digest.
expectedSignatureUnkeyed(tokenData, serviceKey) ==
    hex(digest(utf8Encode(tokenData)))

\* hex(SHA-256(TextEncoder.encode(tokenData + serviceKey)))
expectedSignature(tokenData, serviceKey) ==
    hex(digest(utf8Encode(tokenData \o serviceKey)))

\* The mutated order of checks: the signature is compared before the expiry.
ChecksSignatureFirst(payload, tokenData, signature, serviceKey, now) ==
    IF signature # expectedSignature(tokenData, serviceKey)
    THEN Outcome(JNull, "invalid_signature", "Invalid signature", FALSE)
    ELSE IF IsExpired(payload, now)
    THEN Outcome(JNull, "expired", "Token expired", FALSE)
    ELSE Outcome(payload, "accepted", "", FALSE)

\* Lines 28-48: the expiry check, then the signature check, then the payload.
Checks(payload, tokenData, signature, serviceKey, now) ==
    IF IsExpired(payload, now)
    THEN Outcome(JNull, "expired", "Token expired", FALSE)
    ELSE IF signature # expectedSignature(tokenData, serviceKey)
    THEN Outcome(JNull, "invalid_signature", "Invalid signature", FALSE)
    ELSE Outcome(payload, "accepted", "", FALSE)

\* Line 26 and on, given what JSON.parse made of tokenData. Reading payload.exp of
\* a null payload is a TypeError.
Parsed(parsed, tokenData, signature, serviceKey, now) ==
    IF ~parsed.ok THEN Raised
    ELSE IF parsed.v.t = "null" THEN Raised
    ELSE Checks(parsed.v, tokenData, signature, serviceKey, now)

\* Line 25 and on, given what atob made of payloadBase64.
Decoded(decoded, signature, serviceKey, now) ==
    IF ~decoded.ok THEN Raised
    ELSE Parsed(JSONparse(decoded.text), decoded.text, signature, serviceKey, now)

\* Line 23 and on, given the two destructured segments.
Destructured(payloadBase64, signature, serviceKey, now) ==
    IF ~Truthy(payloadBase64) \/ ~Truthy(signature)
    THEN Outcome(JNull, "missing_part", "", FALSE)
    ELSE Decoded(atob(payloadBase64.s), signature.s, serviceKey, now)

Segments(segments, serviceKey, now) ==
    Destructured(Element(segments, 1), Element(segments, 2), serviceKey, now)

\* The body of the try block.
TryBlock(token, serviceKey, now) ==
    Segments(split(token, FullStop), serviceKey, now)

\* What leaves the function given what the try block did.
Caught(o) ==
    IF o.threw THEN CatchClause(o) ELSE o

verifyAdminToken(token, serviceKey, now) ==
    Caught(TryBlock(token, serviceKey, now))

(***************************************************************************)
(* The credentials presented to the verifier                               *)
(*                                                                         *)
(* The issuer is not part of this function; its format is the one the      *)
(* specification gives: base64 of the UTF-8 bytes of the JSON text, a ".", *)
(* and the hex digest of the JSON text followed by the secret.             *)
(***************************************************************************)

\* The clock runs over 0..MaxTime, and so do the expiry instants.
MaxTime == 2

Times == 0..MaxTime

ServiceKey == Str(<<"k", "e", "y">>)

OtherKey == Str(<<"y", "e", "k">>)

\* Identifiers: two plain ones and one holding a non-ASCII letter (U+00E9).
Admin1 == Str(<<"a", "1">>)
Admin2 == Str(<<"a", "2">>)
Admin3 == <<233, Digit3>>

AdminIds == { Admin1, Admin2, Admin3 }

UserId == Str(<<"u", "1">>)

Division1 == Str(<<"D", "1">>)
Division2 == Str(<<"D", "2">>)

DivisionIds == { Division1, Division2 }

IsAscii(s) == \A i \in 1..Len(s) : s[i] < 128

\* The payloads an issuer may embed.
Payloads ==
    [admin_id : AdminIds, user_id : {UserId}, division_id : DivisionIds, exp : Times]

\* The decimal text of a natural number.
RECURSIVE NumberToText(_)
NumberToText(n) ==
    IF n < 10 THEN << Digit0 + n >>
    ELSE NumberToText(n \div 10) \o << Digit0 + (n % 10) >>

Quoted(s) == << Quote >> \o s \o << Quote >>

\* "key":"value" for a string value (the identifiers hold no character to escape).
StringMember(key, value) == Quoted(key) \o << Colon >> \o Quoted(value)

IdentityMembers(p) ==
    Concat(<< StringMember(AdminIdName, p.admin_id), << Comma >>,
              StringMember(UserIdName, p.user_id), << Comma >>,
              StringMember(DivisionIdName, p.division_id) >>)

ExpKey == Quoted(ExpName) \o << Colon >>

SoonText == Str(<<"s", "o", "o", "n">>)

\* JSON.stringify({admin_id, user_id, division_id, exp})
PayloadJson(p) ==
    Concat(<< << LeftBrace >>, IdentityMembers(p), << Comma >>, ExpKey,
              NumberToText(p.exp), << RightBrace >> >>)

\* The same object without its exp member.
PayloadJsonNoExp(p) ==
    Concat(<< << LeftBrace >>, IdentityMembers(p), << RightBrace >> >>)

\* The same object with a text in place of the expiry number.
PayloadJsonTextExp(p) ==
    Concat(<< << LeftBrace >>, IdentityMembers(p), << Comma >>, ExpKey,
              Quoted(SoonText), << RightBrace >> >>)

\* The same text cut short before its closing brace: not JSON.
PayloadJsonCut(p) ==
    Concat(<< << LeftBrace >>, IdentityMembers(p), << Comma >>, ExpKey,
              NumberToText(p.exp) >>)

\* The payload segment of a credential: base64 of the UTF-8 bytes of the text.
PayloadSegment(text) ==
    base64Encode(utf8Encode(text))

\* The signature segment: lowercase hex of the digest of the text and the secret.
SignatureSegment(text, secret) ==
    hex(digest(utf8Encode(text \o secret)))

Dot == << FullStop >>

\* A credential over an arbitrary payload text, signed with secret.
SignText(text, secret) ==
    PayloadSegment(text) \o Dot \o SignatureSegment(text, secret)

\* The credential the issuer hands out for payload p.
IssueToken(p, secret) ==
    SignText(PayloadJson(p), secret)

UpperCase(s) ==
    [i \in 1..Len(s) |-> IF s[i] >= LowerA /\ s[i] <= LowerZ THEN s[i] - 32 ELSE s[i]]

\* Another spelling of a base64 segment that atob decodes to the same bytes: with
\* padding, the last character before it carries unused low bits, and one of them
\* is set; without padding, a space is put after the first character.
Respell(seg) ==
    IF seg[Len(seg)] # PadChar THEN << seg[1], 32 >> \o Tail(seg)
    ELSE IF seg[Len(seg) - 1] = PadChar
    THEN [seg EXCEPT ![Len(seg) - 2] = Base64Alphabet[Base64Value(seg[Len(seg) - 2]) + 2]]
    ELSE [seg EXCEPT ![Len(seg) - 1] = Base64Alphabet[Base64Value(seg[Len(seg) - 1]) + 2]]

\* The payload p with the other plain admin_id in it.
OtherAdmin(p) ==
    [p EXCEPT !.admin_id = IF p.admin_id = Admin1 THEN Admin2 ELSE Admin1]

\* The ways a presented credential is made from a payload p.
IntactShapes == { "issued" }

ForgedShapes ==
    { "other_secret", "upper_hex", "short_signature", "long_signature", "payload_swapped" }

StructureShapes ==
    { "no_separator", "empty_signature", "empty_payload", "bad_base64", "not_json",
      "null_payload" }

FieldShapes == { "no_exp", "text_exp" }

Shapes ==
    IntactShapes \cup ForgedShapes \cup StructureShapes \cup FieldShapes
        \cup { "trailing_segment", "respelled" }

\* The shapes whose payload segment decodes to the JSON text of a full payload.
DecodableShapes ==
    IntactShapes \cup ForgedShapes \cup { "trailing_segment", "respelled" }

\* The credential of shape sh given the payload segment and the signature the
\* issuer made for p.
Reshape(sh, p, seg, sig) ==
    CASE sh = "issued" -> seg \o Dot \o sig
      [] sh = "other_secret" -> IssueToken(p, OtherKey)
      [] sh = "upper_hex" -> seg \o Dot \o UpperCase(sig)
      [] sh = "short_signature" -> seg \o Dot \o SubSeq(sig, 1, Len(sig) - 1)
      [] sh = "long_signature" -> seg \o Dot \o sig \o << Digit0 >>
      [] sh = "payload_swapped" -> PayloadSegment(PayloadJson(OtherAdmin(p))) \o Dot \o sig
      [] sh = "trailing_segment" -> seg \o Dot \o sig \o Dot \o << LowerA >>
      [] sh = "respelled" -> Respell(seg) \o Dot \o sig
      [] sh = "no_separator" -> seg
      [] sh = "empty_signature" -> seg \o Dot
      [] sh = "empty_payload" -> Dot \o sig
      [] sh = "bad_base64" -> << Minus >> \o seg \o Dot \o sig
      [] sh = "not_json" -> SignText(PayloadJsonCut(p), ServiceKey)
      [] sh = "null_payload" -> SignText(NullText, ServiceKey)
      [] sh = "no_exp" -> SignText(PayloadJsonNoExp(p), ServiceKey)
      [] sh = "text_exp" -> SignText(PayloadJsonTextExp(p), ServiceKey)

\* The text of the credential of shape sh made from payload p.
Craft(sh, p) ==
    Reshape(sh, p, PayloadSegment(PayloadJson(p)),
            SignatureSegment(PayloadJson(p), ServiceKey))

\* The payload value the issuer embedded, as a JSON value.
PayloadValue(p) ==
    JObject(<< << AdminIdName, JString(p.admin_id) >>,
               << UserIdName, JString(p.user_id) >>,
               << DivisionIdName, JString(p.division_id) >>,
               << ExpName, JNumber(p.exp) >> >>)

\* The stand-in digest tells apart every two texts this model signs.
SignedTexts ==
    UNION { { PayloadJson(p) \o k, PayloadJsonNoExp(p) \o k, PayloadJsonTextExp(p) \o k,
              PayloadJsonCut(p) \o k } : p \in Payloads, k \in {ServiceKey, OtherKey} }
        \cup { NullText \o ServiceKey }

DigestSeparates ==
    Cardinality({ digest(utf8Encode(x)) : x \in SignedTexts }) = Cardinality(SignedTexts)

(***************************************************************************)
(* The data service                                                        *)
(*                                                                         *)
(* Three tables are reached through the client: admins, programs and       *)
(* program_form_questions. A row that a query does not find is a row with  *)
(* found = FALSE.                                                          *)
(***************************************************************************)

Program1 == Str(<<"p", "1">>)
Program2 == Str(<<"p", "2">>)
Program3 == Str(<<"p", "3">>)

Question1 == Str(<<"q", "1">>)
Question2 == Str(<<"q", "2">>)
Question3 == Str(<<"q", "3">>)
Question4 == Str(<<"q", "4">>)
Question9 == Str(<<"q", "9">>)


OldText == Str(<<"o", "l", "d">>)
NewText == Str(<<"n", "e", "w">>)
BlankText == Str(<<" ">>)

AdminRow(is_active, division_id) ==
    [found |-> TRUE, is_active |-> is_active, division_id |-> division_id]

NoAdmin == [found |-> FALSE, is_active |-> FALSE, division_id |-> <<>>]

ProgramRow(division_id) == [found |-> TRUE, division_id |-> division_id]

NoProgram == [found |-> FALSE, division_id |-> <<>>]

QuestionRow(program_id, question_text) ==
    [found |-> TRUE, program_id |-> program_id, question_text |-> question_text,
     sort_order |-> 0]

NoQuestion ==
    [found |-> FALSE, program_id |-> <<>>, question_text |-> <<>>, sort_order |-> 0]

\* The programs table: one program in each division; Program3 names no program.
programs ==
    [p \in {Program1, Program2} |->
        IF p = Program1 THEN ProgramRow(Division1) ELSE ProgramRow(Division2)]

\* .from(table).select(...).eq("id", id).single() on a table held as a function
\* from ids to rows: the row of that id, none when no row has it.
SelectSingle(table, id, none) ==
    IF id \in DOMAIN table THEN table[id] ELSE none

\* The error message of a store operation that failed.
StoreMessage == "store error"

\* The messages a failing store operation may carry.
StoreMessages == { StoreMessage, "connection timed out" }

(***************************************************************************)
(* Requests                                                                *)
(***************************************************************************)

\* The x-admin-token header values a caller may send, by name: no header, an empty
\* one, the credential of the active admin good until MaxTime, one that expires
\* after instant 0, one signed with another secret, a good credential of an
\* admin_id that has no record, and one issued to the active admin under another
\* division than its record holds now.
LongLived(admin) ==
    [admin_id |-> admin, user_id |-> UserId, division_id |-> Division1, exp |-> MaxTime]

ShortLived(admin) ==
    [LongLived(admin) EXCEPT !.exp = 0]

Transferred(admin) ==
    [LongLived(admin) EXCEPT !.division_id = Division2]

Header ==
    [ absent  |-> JNull,
      empty   |-> JString(<<>>),
      valid   |-> JString(IssueToken(LongLived(Admin1), ServiceKey)),
      short   |-> JString(IssueToken(ShortLived(Admin1), ServiceKey)),
      forged  |-> JString(Craft("other_secret", LongLived(Admin1))),
      orphan  |-> JString(IssueToken(LongLived(Admin2), ServiceKey)),
      moved   |-> JString(IssueToken(Transferred(Admin1), ServiceKey)) ]

Credentials == DOMAIN Header

\* The payload each token was made from.
Presented ==
    [ valid   |-> LongLived(Admin1),
      short   |-> ShortLived(Admin1),
      forged  |-> LongLived(Admin1),
      orphan  |-> LongLived(Admin2),
      moved   |-> Transferred(Admin1) ]

\* await verifyAdminToken(adminToken, supabaseServiceKey), for each header that
\* holds a token and each instant of the clock.
Verification ==
    [c \in Credentials \ {"absent"} |->
        [t \in Times |-> verifyAdminToken(Header[c].s, ServiceKey, t)]]

Methods == { "POST", "OPTIONS" }

\* const corsHeaders: the allowed headers are listed one by one (the header value
\* is this list joined by ", ").
corsHeaders ==
    ("Access-Control-Allow-Origin" :> << "*" >>)
        @@ ("Access-Control-Allow-Headers" :>
               << "authorization", "x-client-info", "apikey", "content-type",
                  "x-admin-token" >>)

\* { ...corsHeaders, "Content-Type": "application/json" }
JsonHeaders ==
    ("Content-Type" :> << "application/json" >>) @@ corsHeaders

\* new Response(JSON.stringify(...), { status, headers }): body tells whether the
\* response has a body at all.
Response(status, error, success, rows) ==
    [status |-> status, error |-> error, success |-> success, rows |-> rows,
     headers |-> JsonHeaders, body |-> TRUE]

NoResponse == Response(0, "", FALSE, {})

ErrorResponse(status, error) == Response(status, error, FALSE, {})

\* new Response(null, { headers: corsHeaders })
PreflightResponse ==
    [Response(200, "", FALSE, {}) EXCEPT !.headers = corsHeaders, !.body = FALSE]

NoBody == [ok |-> FALSE, v |-> JUndefined]

\* A request that has not arrived yet. pc is the await the handler is suspended
\* at; ops lists the store operations the request has issued.
NoRequest ==
    [pc |-> "idle", method |-> "", credential |-> "absent", adminId |-> JUndefined,
     adminError |-> FALSE, admin |-> NoAdmin, bodyRead |-> FALSE, body |-> NoBody,
     existing |-> NoQuestion, storeError |-> "", ops |-> <<>>, response |-> NoResponse]

Requests == { "r1", "r2" }

\* return new Response(...)
Reply(q, response) ==
    [q EXCEPT !.pc = "done", !.response = response]

\* The request q having issued the store operation op.
Issued(q, op) ==
    [q EXCEPT !.ops = Append(@, op)]

\* The store operations a request can issue.
Op(table, verb) == [table |-> table, verb |-> verb]

AdminsSelect == Op("admins", "select")
ProgramsSelect == Op("programs", "select")
QuestionsSelect == Op("program_form_questions", "select")
QuestionsInsert == Op("program_form_questions", "insert")
QuestionsUpdate == Op("program_form_questions", "update")
QuestionsDelete == Op("program_form_questions", "delete")

\* The property names and action names of a request body.
ActionName == Str(<<"a", "c", "t", "i", "o", "n">>)
DataName == Str(<<"d", "a", "t", "a">>)
ProgramIdName == Str(<<"p", "r", "o", "g", "r", "a", "m", "_", "i", "d">>)
IdName == Str(<<"i", "d">>)
QuestionTextName ==
    Str(<<"q", "u", "e", "s", "t", "i", "o", "n", "_", "t", "e", "x", "t">>)
SortOrderName == Str(<<"s", "o", "r", "t", "_", "o", "r", "d", "e", "r">>)

\* The sort order an update sends.
NewOrder == JNumber(5)

ListText == Str(<<"l", "i", "s", "t">>)
CreateText == Str(<<"c", "r", "e", "a", "t", "e">>)
UpdateText == Str(<<"u", "p", "d", "a", "t", "e">>)
DeleteText == Str(<<"d", "e", "l", "e", "t", "e">>)
PurgeText == Str(<<"p", "u", "r", "g", "e">>)
UndefinedText == Str(<<"u", "n", "d", "e", "f", "i", "n", "e", "d">>)

\* String(v)
ToStringJS(v) ==
    IF v.t = "string" THEN v.s
    ELSE IF v.t = "number" THEN
        IF v.n < 0 THEN << Minus >> \o NumberToText(0 - v.n) ELSE NumberToText(v.n)
    ELSE IF v.t = "boolean" THEN (IF v.n = 1 THEN TrueText ELSE FalseText)
    ELSE IF v.t = "null" THEN NullText
    ELSE IF v.t = "undefined" THEN UndefinedText
    ELSE Str(<<"[", "o", "b", "j", "e", "c", "t", " ", "O", "b", "j", "e", "c", "t", "]">>)

\* a || b
Or(a, b) == IF Truthy(a) THEN a ELSE b

\* The characters String.prototype.trim removes (those that occur in this model).
IsTrimmable(c) ==
    c \in {9, 10, 11, 12, 13, 32, 160}

\* s.trim()
Trim(s) ==
    LET kept == { i \in 1..Len(s) : ~IsTrimmable(s[i]) }
    IN IF kept = {} THEN <<>>
       ELSE SubSeq(s, CHOOSE i \in kept : \A j \in kept : i <= j,
                      CHOOSE i \in kept : \A j \in kept : i >= j)

\* The bodies a caller may send: what req.json() makes of them (ok = FALSE for a
\* body that is not JSON).
Body(members) == [ok |-> TRUE, v |-> JObject(members)]

ActionBody(action, data) ==
    Body(<< << ActionName, JString(action) >>, << DataName, JObject(data) >> >>)

ListBodies ==
    { ActionBody(ListText, <<>>) }
        \cup { ActionBody(ListText, << << ProgramIdName, JString(p) >> >>) :
                 p \in {Program1, Program2, Program3} }

CreateBodies ==
    { ActionBody(CreateText, << << QuestionTextName, JString(NewText) >> >>),
      ActionBody(CreateText, << << ProgramIdName, JString(Program1) >> >>) }
        \cup { ActionBody(CreateText, << << ProgramIdName, JString(p) >>,
                                         << QuestionTextName, JString(x) >> >>) :
                 p \in {Program1, Program2}, x \in {NewText, BlankText} }

UpdateBodies ==
    { ActionBody(UpdateText, << << QuestionTextName, JString(NewText) >> >>),
      ActionBody(UpdateText, << << IdName, JString(Question1) >> >>),
      ActionBody(UpdateText, << << IdName, JString(Question1) >>,
                                << SortOrderName, NewOrder >> >>),
      ActionBody(UpdateText, << << IdName, JString(Question1) >>,
                                << ProgramIdName, JString(Program2) >>,
                                << QuestionTextName, JString(NewText) >> >>) }
        \cup { ActionBody(UpdateText, << << IdName, JString(q) >>,
                                         << QuestionTextName, JString(x) >> >>) :
                 q \in {Question1, Question2, Question3, Question9},
                 x \in {NewText, BlankText} }

DeleteBodies ==
    { ActionBody(DeleteText, <<>>) }
        \cup { ActionBody(DeleteText, << << IdName, JString(q) >> >>) :
                 q \in {Question1, Question2, Question3, Question9} }

Bodies ==
    { NoBody, [ok |-> TRUE, v |-> JNull], Body(<<>>), ActionBody(<<>>, <<>>),
      ActionBody(PurgeText, <<>>) }
        \cup ListBodies \cup CreateBodies \cup UpdateBodies \cup DeleteBodies

(***************************************************************************)
(* The request handler, from one await to the next                         *)
(***************************************************************************)

\* The mutated token check: the 401 is built but not returned, and the handler goes
\* on to read the body.
VerifiedWithoutReturn(q, o) ==
    IF ~Truthy(o.returned)
    THEN [q EXCEPT !.pc = "body"]
    ELSE [q EXCEPT !.pc = "admin", !.adminId = GetProp(o.returned, AdminIdName)]

\* Lines 73-79, given the outcome of verifyAdminToken.
Verified(q, o) ==
    IF ~Truthy(o.returned)
    THEN Reply(q, ErrorResponse(401, "Invalid or expired token"))
    ELSE [q EXCEPT !.pc = "admin", !.adminId = GetProp(o.returned, AdminIdName)]

\* Lines 65-79, given the x-admin-token header.
TokenRead(q, adminToken, t) ==
    IF ~Truthy(adminToken)
    THEN Reply(q, ErrorResponse(401, "Admin token required"))
    ELSE Verified(q, Verification[q.credential][t])

\* The mutated arrival: OPTIONS is handled like any other method.
ArrivedWithoutPreflight(q, t) ==
    TokenRead(q, Header[q.credential], t)

\* Lines 56-79: a request arrives at instant t.
Arrived(q, t) ==
    IF q.method = "OPTIONS" THEN Reply(q, PreflightResponse)
    ELSE TokenRead(q, Header[q.credential], t)

\* The mutated admin check: is_active is not looked at.
AdminRejectedIgnoringActive(adminError, admin) ==
    adminError \/ ~admin.found

\* adminError || !admin || !admin.is_active
AdminRejected(adminError, admin) ==
    adminError \/ ~admin.found \/ ~admin.is_active

\* Lines 82-86: what .single() hands back: an error and no data when the query
\* failed or matched no row.
AdminFetched(q, failed, row) ==
    [q EXCEPT !.adminError = failed \/ ~row.found,
              !.admin = IF failed THEN NoAdmin ELSE row]

\* Lines 88-96.
AdminChecked(q) ==
    IF AdminRejected(q.adminError, q.admin)
    THEN Reply(q, ErrorResponse(401, "Admin account not found or inactive"))
    ELSE [q EXCEPT !.pc = "body"]

\* catch (error) { ...; return 500 }
Thrown(q) ==
    Reply(q, ErrorResponse(500, "Internal server error"))

RequestAction(q) == GetProp(q.body.v, ActionName)

RequestData(q) == GetProp(q.body.v, DataName)

\* String(data?.program_id || "")
programId(q) ==
    ToStringJS(Or(GetProp(RequestData(q), ProgramIdName), JString(<<>>)))

\* String(data?.id || "")
questionId(q) ==
    ToStringJS(Or(GetProp(RequestData(q), IdName), JString(<<>>)))

\* String(data?.question_text || "").trim()
insertText(q) ==
    Trim(ToStringJS(Or(GetProp(RequestData(q), QuestionTextName), JString(<<>>))))

\* The switch, up to the first await of the chosen case.
Dispatched(q, action) ==
    IF action \in {JString(ListText), JString(CreateText)}
    THEN IF programId(q) = <<>>
         THEN Reply(q, ErrorResponse(400, "program_id is required"))
         ELSE [q EXCEPT !.pc = "access"]
    ELSE IF action \in {JString(UpdateText), JString(DeleteText)}
    THEN IF questionId(q) = <<>>
         THEN Reply(q, ErrorResponse(400, "id is required"))
         ELSE [q EXCEPT !.pc = "existing"]
    ELSE Reply(q, ErrorResponse(400, "Invalid action"))

\* Lines 98-109 and the switch: req.json() throws on a body that is not JSON, and
\* destructuring a null body throws.
BodyParsed(q) ==
    IF ~q.body.ok \/ q.body.v.t \in {"null", "undefined"} THEN Thrown(q)
    ELSE IF ~Truthy(RequestAction(q))
    THEN Reply(q, ErrorResponse(400, "Action is required"))
    ELSE Dispatched(q, RequestAction(q))

\* Lines 239-250 and 304-315.
ExistingFetched(q, failed, row) ==
    IF failed \/ ~row.found
    THEN Reply(q, ErrorResponse(404, "Question not found"))
    ELSE [q EXCEPT !.pc = "access", !.existing = QuestionRow(row.program_id, <<>>)]

\* The program whose access is verified: the one named in the data for list and
\* create, the one of the existing question for update and delete.
TargetProgram(q) ==
    IF q.existing.found THEN q.existing.program_id ELSE programId(q)

\* The mutated access check: the division is not compared.
verifyProgramAccessAnyDivision(failed, program, divisionId) ==
    IF failed \/ ~program.found THEN FALSE
    ELSE TRUE

\* Lines 113-122.
verifyProgramAccess(failed, program, divisionId) ==
    IF failed \/ ~program.found THEN FALSE
    ELSE program.division_id = divisionId

\* The division_id the credential of request q carries.
CredentialDivision(q) ==
    Presented[q.credential].division_id

\* The mutated division: the one of the credential, adminPayload.division_id.
divisionIdOfCredential(q) ==
    CredentialDivision(q)

\* const divisionId = admin.division_id as string;
divisionId(q) ==
    q.admin.division_id

AccessDenied(q) ==
    Reply(q, ErrorResponse(403,
        "You can only manage questions for programs in your division"))

\* After verifyProgramAccess granted access, up to the store operation.
Granted(q, action) ==
    IF action = JString(ListText) THEN [q EXCEPT !.pc = "list"]
    ELSE IF action = JString(CreateText)
    THEN IF insertText(q) = <<>>
         THEN Reply(q, ErrorResponse(400, "question_text is required"))
         ELSE [q EXCEPT !.pc = "insert"]
    ELSE IF action = JString(UpdateText) THEN [q EXCEPT !.pc = "update"]
    ELSE [q EXCEPT !.pc = "delete"]

AccessDecided(q, granted) ==
    IF granted THEN Granted(q, RequestAction(q)) ELSE AccessDenied(q)

\* The mutated error response: the store's message is replaced by a fixed one.
StoreFailedGeneric(q, error) ==
    Reply([q EXCEPT !.storeError = error], ErrorResponse(400, "Internal server error"))

\* if (error) return 400 with error.message
StoreFailed(q, error) ==
    Reply([q EXCEPT !.storeError = error], ErrorResponse(400, error))

\* The mutated success: the handler throws once the store has applied the
\* operation, and the catch clause answers.
ThrownAfterWrite(q, rows) ==
    Thrown(q)

Succeeded(q, rows) ==
    Reply(q, Response(200, "", TRUE, rows))

(***************************************************************************)
(* The agent form: roles, ward options                                     *)
(***************************************************************************)

\* The role chain of usePennyekartAgents, first role at the top of the hierarchy.
ROLE_HIERARCHY == << "team_leader", "coordinator", "group_leader", "pro" >>

Roles == { ROLE_HIERARCHY[i] : i \in DOMAIN ROLE_HIERARCHY }

\* null where a role is expected.
NoRole == "none"

RoleIndex(role) == CHOOSE i \in DOMAIN ROLE_HIERARCHY : ROLE_HIERARCHY[i] = role

\* The role immediately before role in the chain, null for the first.
getParentRole(role) ==
    IF RoleIndex(role) = 1 THEN NoRole ELSE ROLE_HIERARCHY[RoleIndex(role) - 1]

\* The role immediately after role in the chain, null for the last.
getChildRole(role) ==
    IF RoleIndex(role) = Len(ROLE_HIERARCHY) THEN NoRole
    ELSE ROLE_HIERARCHY[RoleIndex(role) + 1]

NotANumber == [nan |-> TRUE, n |-> 0]

\* The position of the first character of s that is not white space.
SkipWhiteSpace(s) ==
    LET kept == { i \in 1..Len(s) : ~IsTrimmable(s[i]) }
    IN IF kept = {} THEN Len(s) + 1
       ELSE CHOOSE i \in kept : \A j \in kept : i <= j

\* The decimal digits of s read from position j, with the sign met before them.
SignedDigits(negative, j, d) ==
    IF d.pos = j THEN NotANumber
    ELSE [nan |-> FALSE, n |-> IF negative THEN 0 - d.v ELSE d.v]

IntegerAt(s, i) ==
    IF i <= Len(s) /\ s[i] \in {Minus, Plus}
    THEN SignedDigits(s[i] = Minus, i + 1, ParseDigits(s, i + 1, 0))
    ELSE SignedDigits(FALSE, i, ParseDigits(s, i, 0))

\* parseInt(s, 10): white space is skipped, a sign is read, then the longest run
\* of decimal digits; whatever follows the digits is ignored, and the result is
\* NaN when no digit is found.
parseInt(s) == IntegerAt(s, SkipWhiteSpace(s))

\* A row of the panchayaths table; ward is a string or null.
Panchayath(id, ward) == [id |-> id, ward |-> ward, found |-> TRUE]

NoPanchayath == [id |-> "", ward |-> JNull, found |-> FALSE]

\* panchayaths.find(p => p.id === id)
Find(panchayaths, id) ==
    LET hits == { i \in DOMAIN panchayaths : panchayaths[i].id = id }
    IN IF hits = {} THEN NoPanchayath
       ELSE panchayaths[CHOOSE i \in hits : \A j \in hits : i <= j]

\* Array.from({ length: wardCount }, (_, i) => String(i + 1))
Wards(wardCount) == [i \in 1..wardCount |-> NumberToText(i)]

WardsOf(panchayath, wardCount) ==
    IF panchayath.found /\ Truthy(panchayath.ward) /\ ~wardCount.nan /\ wardCount.n > 0
    THEN Wards(wardCount.n)
    ELSE <<>>

\* Lines 155-167 and 171-183: what a ward effect hands to setWardOptions for the
\* panchayath selected in its form ("" when none is selected).
WardOptionsFor(selected, panchayaths) ==
    IF selected = "" THEN <<>>
    ELSE WardsOf(Find(panchayaths, selected), parseInt(Find(panchayaths, selected).ward.s))

(***************************************************************************)
(* The agent form: BulkAgentFormDialog and the page that opens it          *)
(*                                                                         *)
(* The dialog is a React component: an event handler changes state, the    *)
(* component renders, and every effect whose dependencies differ from the  *)
(* previous render runs, in the order of declaration, with the values of   *)
(* that render; the state the effects set causes a further render. Names   *)
(* and mobile numbers are left out: no statement about the form depends on *)
(* them.                                                                   *)
(***************************************************************************)

\* null where the id of an agent is expected.
NoAgentId == ""

One == Str(<<"1">>)

\* A row of pennyekart_agents.
Agent(role, panchayath, parent, customers) ==
    [role |-> role, panchayath_id |-> panchayath, ward |-> One,
     parent_agent_id |-> parent, customer_count |-> customers, is_active |-> TRUE]

\* The agents the page lists.
agents ==
    [a \in {"t1", "g1", "p1"} |->
        IF a = "t1" THEN Agent("team_leader", "pa", NoAgentId, 0)
        ELSE IF a = "g1" THEN Agent("group_leader", "pb", NoAgentId, 0)
        ELSE Agent("pro", "pb", "g1", 2)]

\* The panchayaths table of the deployment under study.
Panchayaths ==
    << Panchayath("pa", JString(Str(<<"2">>))), Panchayath("pb", JString(One)) >>

\* Lines 885-888: the page before any click.
InitPage ==
    [formDialogOpen |-> FALSE, editingAgent |-> NoAgentId,
     defaultParentId |-> NoAgentId, defaultRole |-> NoRole]

\* defaultRole || "pro"
RoleOr(role) == IF role = NoRole THEN "pro" ELSE role

EmptyRow == [ward |-> <<>>, customer_count |-> 0]

\* Lines 103-111 and 247-254: the values of an empty single form.
SingleDefaults(p) ==
    [role |-> RoleOr(p.defaultRole), panchayath_id |-> "", ward |-> <<>>,
     parent_agent_id |-> p.defaultParentId, customer_count |-> 0]

\* Lines 117-122 and 255-260: the values of an empty bulk form.
BulkDefaults(p) ==
    [panchayath_id |-> "", role |-> RoleOr(p.defaultRole),
     parent_agent_id |-> p.defaultParentId, agents |-> << EmptyRow >>]

\* Lines 236-244: the values of the single form for the agent under edit.
SingleOf(agent) ==
    [role |-> agent.role, panchayath_id |-> agent.panchayath_id, ward |-> agent.ward,
     parent_agent_id |-> agent.parent_agent_id, customer_count |-> agent.customer_count]

\* What the effects of a render depend on (lines 130-133 and the props).
Watched(d, p) ==
    [mounted |-> TRUE, open |-> p.formDialogOpen, agent |-> p.editingAgent,
     defaultParentId |-> p.defaultParentId, defaultRole |-> p.defaultRole,
     singleRole |-> d.single.role, singlePanchayath |-> d.single.panchayath_id,
     bulkRole |-> d.bulk.role, bulkPanchayath |-> d.bulk.panchayath_id,
     listed |-> d.listed]

\* Lines 91-128: the component before its first render. listed says that
\* setPanchayaths stored a new array which no render has seen yet; loading says
\* that a panchayath query is in flight;
\* parentQueries are the parent queries in flight.
Mounted(p) ==
    [activeTab |-> "single", panchayaths |-> <<>>, wardOptions |-> <<>>,
     potentialParents |-> {}, isSubmitting |-> FALSE,
     single |-> SingleDefaults(p), bulk |-> BulkDefaults(p),
     listed |-> FALSE, loading |-> FALSE, parentQueries |-> {},
     rendered |-> [mounted |-> FALSE, open |-> FALSE, agent |-> NoAgentId,
                   defaultParentId |-> NoAgentId, defaultRole |-> NoRole,
                   singleRole |-> "pro", singlePanchayath |-> "",
                   bulkRole |-> "pro", bulkPanchayath |-> "", listed |-> FALSE]]

\* Whether an effect with dependencies deps runs in the render of w after prev.
Changed(prev, w, deps) ==
    ~prev.mounted \/ \E k \in deps : prev[k] # w[k]

\* Lines 136-152: the panchayath query is sent while the dialog is open.
fetchPanchayaths(d, w) ==
    IF w.open THEN [d EXCEPT !.loading = TRUE] ELSE d

\* Lines 154-168 and 170-184: a ward effect.
WardEffect(d, selected) ==
    [d EXCEPT !.wardOptions = WardOptionsFor(selected, d.panchayaths)]

\* Lines 187-204 and 210-227: the parent options are emptied, or queried.
fetchParentAgents(d, role, panchayath) ==
    IF getParentRole(role) = NoRole \/ panchayath = ""
    THEN [d EXCEPT !.potentialParents = {}]
    ELSE [d EXCEPT !.parentQueries =
             @ \cup {[panchayath_id |-> panchayath, role |-> getParentRole(role)]}]

\* Lines 233-261: the forms are reset for the props of the render.
ResetEffect(d, w, p) ==
    IF w.open /\ w.agent # NoAgentId
    THEN [d EXCEPT !.activeTab = "single", !.single = SingleOf(agents[w.agent])]
    ELSE IF w.open
    THEN [d EXCEPT !.single = SingleDefaults(p), !.bulk = BulkDefaults(p)]
    ELSE d

\* One effect of a render: run when its dependencies changed.
Effect(run, after, before) == IF run THEN after ELSE before

Effect1(d, prev, w) ==
    Effect(Changed(prev, w, {"open"}), fetchPanchayaths(d, w), d)

Effect2(d, prev, w) ==
    Effect(Changed(prev, w, {"singlePanchayath", "listed"}),
           WardEffect(d, w.singlePanchayath), d)

Effect3(d, prev, w) ==
    Effect(Changed(prev, w, {"bulkPanchayath", "listed"}),
           WardEffect(d, w.bulkPanchayath), d)

Effect4(d, prev, w) ==
    Effect(Changed(prev, w, {"singleRole", "singlePanchayath"}),
           fetchParentAgents(d, w.singleRole, w.singlePanchayath), d)

Effect5(d, prev, w) ==
    Effect(Changed(prev, w, {"bulkRole", "bulkPanchayath"}),
           fetchParentAgents(d, w.bulkRole, w.bulkPanchayath), d)

Effect6(d, prev, w, p) ==
    Effect(Changed(prev, w, {"open", "agent", "defaultParentId", "defaultRole"}),
           ResetEffect(d, w, p), d)

\* The effects of the render of w, in the order of their declaration.
Effects(d, prev, w, p) ==
    Effect6(Effect5(Effect4(Effect3(Effect2(Effect1(d, prev, w), prev, w),
                                    prev, w), prev, w), prev, w), prev, w, p)

RECURSIVE Commit(_, _)

Rendered(d, p, w) ==
    IF w = d.rendered THEN d
    ELSE Commit(Effects([d EXCEPT !.rendered = [w EXCEPT !.listed = FALSE],
                                  !.listed = FALSE], d.rendered, w, p), p)

\* The component renders with props p until no effect has anything left to do.
Commit(d, p) == Rendered(d, p, Watched(d, p))

\* The props in the terms of the page state (lines 1166-1173).
isEditing(p) == p.editingAgent # NoAgentId

\* Lines 360-361: the role whose agents a form offers as parents.
singleParentRole(d) == getParentRole(d.single.role)

bulkParentRole(d) == getParentRole(d.bulk.role)

\* Lines 362-363: whether a form shows its parent select.
singleNeedsParent(d) == d.single.role # "team_leader"

bulkNeedsParent(d) == d.bulk.role # "team_leader"

(***************************************************************************)
(* State                                                                   *)
(***************************************************************************)

VARIABLES
    now,        \* Date.now(), in 0..MaxTime
    call,       \* the call of verifyAdminToken under study: its credential, its outcome
    admins,     \* the admins table: admin id -> row
    questions,  \* the program_form_questions table: question id -> row
    requests,   \* the requests in flight: request -> handler state
    geography,  \* the panchayaths table: the rows the form loads
    page,       \* state of PennyekartAgentHierarchy that the form's props come from
    dialog,     \* state of BulkAgentFormDialog: its forms, lists and effects
    submitted,  \* the rows the form handed to pennyekart_agents, until the store answers
    clicks      \* the number of clicks and selections the user has made

vars ==
    << now, call, admins, questions, requests, geography, page, dialog, submitted, clicks >>

store == << admins, questions >>

\* What the question handler leaves alone, and what the agent form leaves alone.
form == << geography, page, dialog, submitted, clicks >>

service == << now, call, admins, questions, requests >>

NoPayload == [admin_id |-> <<>>, user_id |-> <<>>, division_id |-> <<>>, exp |-> 0]

NoCall ==
    [made |-> FALSE, shape |-> "none", payload |-> NoPayload, token |-> <<>>, at |-> 0,
     out |-> Outcome(JUndefined, "none", "", FALSE)]

\* A credential of shape sh made from p, not yet presented.
Pending(sh, p) ==
    [NoCall EXCEPT !.shape = sh, !.payload = p, !.token = Craft(sh, p)]

\* The store as it is when the function is deployed: one active admin in
\* Division1 (Admin2 has no record), a question in each program.
InitStore ==
    /\ admins = [a \in {Admin1} |-> AdminRow(TRUE, Division1)]
    /\ questions = [q \in {Question1, Question2, Question3, Question4} |->
                      IF q = Question1 THEN QuestionRow(Program1, OldText)
                      ELSE IF q = Question2 THEN QuestionRow(Program2, OldText)
                      ELSE NoQuestion]

\* The agent form before any click: the dialog is mounted, closed.
NoSubmission == [kind |-> "none", id |-> NoAgentId, rows |-> <<>>]

InitForm ==
    /\ geography = Panchayaths
    /\ page = InitPage
    /\ dialog = Commit(Mounted(InitPage), InitPage)
    /\ submitted = NoSubmission
    /\ clicks = 0

\* Time passes.
Tick ==
    /\ now < MaxTime
    /\ now' = now + 1
    /\ UNCHANGED << call, admins, questions, requests, form >>

\* The caller presents its credential: verifyAdminToken runs with the secret and
\* the clock of that instant.
Verify ==
    /\ call.shape # "none"
    /\ ~call.made
    /\ call' = [call EXCEPT !.made = TRUE, !.at = now,
                            !.out = verifyAdminToken(call.token, ServiceKey, now)]
    /\ UNCHANGED << now, admins, questions, requests, form >>

InitVerify ==
    /\ now = 0
    /\ call \in { Pending(sh, p) : sh \in Shapes, p \in Payloads }
    /\ InitStore
    /\ requests = [r \in Requests |-> NoRequest]
    /\ InitForm

NextVerify ==
    \/ Tick
    \/ Verify

\* The verifier alone, called with every modelled credential at every instant.
SpecVerify == InitVerify /\ [][NextVerify]_vars

\* Somebody else deactivates or reactivates an admin in the store.
SetActive(a, active) ==
    /\ admins[a].is_active # active
    /\ admins' = [admins EXCEPT ![a].is_active = active]
    /\ UNCHANGED << now, call, questions, requests, form >>

Deactivate ==
    \E a \in DOMAIN admins : SetActive(a, FALSE)

Activate ==
    \E a \in DOMAIN admins : SetActive(a, TRUE)

\* Lines 56-79: the request arrives and runs to its first store query.
Receive(r) ==
    /\ requests[r].pc = "idle"
    /\ \E method \in Methods, credential \in Credentials :
          requests' = [requests EXCEPT ![r] =
              Arrived([@ EXCEPT !.method = method, !.credential = credential], now)]
    /\ UNCHANGED << now, call, admins, questions, form >>

\* Lines 82-96: the admins query is answered.
FetchAdmin(r) ==
    /\ requests[r].pc = "admin"
    /\ \E failed \in BOOLEAN :
          requests' = [requests EXCEPT ![r] =
              AdminChecked(AdminFetched(Issued(@, AdminsSelect), failed,
                                        SelectSingle(admins, @.adminId.s, NoAdmin)))]
    /\ UNCHANGED << now, call, admins, questions, form >>

\* Lines 98-135, 168-178, 230-237, 295-302, 347-351: the body is read.
ReadBody(r) ==
    /\ requests[r].pc = "body"
    /\ \E body \in Bodies :
          requests' = [requests EXCEPT ![r] =
              BodyParsed([@ EXCEPT !.bodyRead = TRUE, !.body = body])]
    /\ UNCHANGED << now, call, admins, questions, form >>

\* Lines 239-250, 304-315: the existing question is looked up.
FetchExisting(r) ==
    /\ requests[r].pc = "existing"
    /\ \E failed \in BOOLEAN :
          requests' = [requests EXCEPT ![r] =
              ExistingFetched(Issued(@, QuestionsSelect), failed,
                              SelectSingle(questions, questionId(@), NoQuestion))]
    /\ UNCHANGED << now, call, admins, questions, form >>

\* verifyProgramAccess answers, and the case runs to its store operation.
VerifyProgramAccess(r) ==
    /\ requests[r].pc = "access"
    /\ \E failed \in BOOLEAN :
          requests' = [requests EXCEPT ![r] =
              AccessDecided(Issued(@, ProgramsSelect),
                  verifyProgramAccess(failed,
                      SelectSingle(programs, TargetProgram(@), NoProgram),
                      divisionId(@)))]
    /\ UNCHANGED << now, call, admins, questions, form >>

\* Lines 149-166.
ListQuestions(r) ==
    /\ requests[r].pc = "list"
    /\ \E failed \in BOOLEAN, error \in StoreMessages :
          requests' = [requests EXCEPT ![r] =
              IF failed THEN StoreFailed(Issued(@, QuestionsSelect), error)
              ELSE Succeeded(Issued(@, QuestionsSelect),
                      { q \in DOMAIN questions :
                          questions[q].found /\ questions[q].program_id = programId(@) })]
    /\ UNCHANGED << now, call, admins, questions, form >>

\* The ids the store has not given to any row yet.
FreshIds == { q \in {Question3, Question4} : ~questions[q].found }

\* Lines 211-228. The store has room for the rows of FreshIds only.
InsertQuestion(r) ==
    /\ requests[r].pc = "insert"
    /\ \/ /\ \E error \in StoreMessages :
                requests' = [requests EXCEPT ![r] =
                                StoreFailed(Issued(@, QuestionsInsert), error)]
          /\ UNCHANGED questions
       \/ \E id \in FreshIds :
             /\ \A other \in FreshIds : other[2] >= id[2]
             /\ questions' = [questions EXCEPT ![id] =
                                 QuestionRow(programId(requests[r]), insertText(requests[r]))]
             /\ requests' = [requests EXCEPT ![r] =
                                 Succeeded(Issued(@, QuestionsInsert), {id})]
    /\ UNCHANGED << now, call, admins, form >>

\* updatePayload (lines 264-273) with all that the data carries.
UpdatedWithAllData(row, data) ==
    [row EXCEPT
        !.program_id = IF GetProp(data, ProgramIdName) # JUndefined
                       THEN ToStringJS(GetProp(data, ProgramIdName))
                       ELSE @,
        !.question_text = IF GetProp(data, QuestionTextName) # JUndefined
                          THEN Trim(ToStringJS(GetProp(data, QuestionTextName)))
                          ELSE @,
        !.sort_order = IF GetProp(data, SortOrderName) # JUndefined
                       THEN ToNumber(GetProp(data, SortOrderName)).n
                       ELSE @]

\* updatePayload (lines 264-273) applied to a row: question_text and sort_order
\* stand for the five fields it copies (the sort orders sent are numbers).
Updated(row, data) ==
    [row EXCEPT
        !.question_text = IF GetProp(data, QuestionTextName) # JUndefined
                          THEN Trim(ToStringJS(GetProp(data, QuestionTextName)))
                          ELSE @,
        !.sort_order = IF GetProp(data, SortOrderName) # JUndefined
                       THEN ToNumber(GetProp(data, SortOrderName)).n
                       ELSE @]

\* Lines 275-293. .single() reports an error when no row has the id any more.
UpdateQuestion(r) ==
    /\ requests[r].pc = "update"
    /\ \/ /\ \E error \in StoreMessages :
                requests' = [requests EXCEPT ![r] =
                                StoreFailed(Issued(@, QuestionsUpdate), error)]
          /\ UNCHANGED questions
       \/ /\ SelectSingle(questions, questionId(requests[r]), NoQuestion).found
          /\ questions' = [questions EXCEPT ![questionId(requests[r])] =
                              Updated(@, RequestData(requests[r]))]
          /\ requests' = [requests EXCEPT ![r] =
                              Succeeded(Issued(@, QuestionsUpdate), {questionId(@)})]
    /\ UNCHANGED << now, call, admins, form >>

\* Lines 329-345.
DeleteQuestion(r) ==
    /\ requests[r].pc = "delete"
    /\ \/ /\ \E error \in StoreMessages :
                requests' = [requests EXCEPT ![r] =
                                StoreFailed(Issued(@, QuestionsDelete), error)]
          /\ UNCHANGED questions
       \/ /\ questions' = [q \in DOMAIN questions |->
                              IF q = questionId(requests[r]) THEN NoQuestion
                              ELSE questions[q]]
          /\ requests' = [requests EXCEPT ![r] = Succeeded(Issued(@, QuestionsDelete), {})]
    /\ UNCHANGED << now, call, admins, form >>

Init ==
    /\ now = 0
    /\ call = NoCall
    /\ InitStore
    /\ requests = [r \in Requests |-> NoRequest]
    /\ InitForm

Next ==
    \/ Tick
    \/ Deactivate
    \/ Activate
    \/ \E r \in Requests : Receive(r)
    \/ \E r \in Requests : FetchAdmin(r)
    \/ \E r \in Requests : ReadBody(r)
    \/ \E r \in Requests : FetchExisting(r)
    \/ \E r \in Requests : VerifyProgramAccess(r)
    \/ \E r \in Requests : ListQuestions(r)
    \/ \E r \in Requests : InsertQuestion(r)
    \/ \E r \in Requests : UpdateQuestion(r)
    \/ \E r \in Requests : DeleteQuestion(r)

\* The function serving requests against the store.
Spec == Init /\ [][Next]_vars

(***************************************************************************)
(* The agent form: events                                                  *)
(***************************************************************************)

\* The clicks and selections the user makes, and the rows the bulk form is given.
MaxClicks == 6

MaxRows == 2

\* The parent queries the network holds at a time.
MaxQueries == 1

\* The customer counts typed into the form.
Counts == {0, 2}

\* Lines 930-935.
handleAddAgent(p) ==
    [formDialogOpen |-> TRUE, editingAgent |-> NoAgentId,
     defaultParentId |-> NoAgentId, defaultRole |-> NoRole]

\* Lines 937-942.
handleEditAgent(p, agent) ==
    [formDialogOpen |-> TRUE, editingAgent |-> agent,
     defaultParentId |-> NoAgentId, defaultRole |-> NoRole]

\* Lines 944-952 with an early return that is left out.
AddChildUnguarded(p, parent) ==
    [formDialogOpen |-> TRUE, editingAgent |-> NoAgentId,
     defaultParentId |-> parent, defaultRole |-> getChildRole(agents[parent].role)]

\* Lines 944-952.
handleAddChildAgent(p, parent) ==
    IF getChildRole(agents[parent].role) = NoRole THEN p
    ELSE [formDialogOpen |-> TRUE, editingAgent |-> NoAgentId,
          defaultParentId |-> parent, defaultRole |-> getChildRole(agents[parent].role)]

\* The page state becomes p, the dialog state d, and the component renders.
Settled(p, d) ==
    /\ page' = p
    /\ dialog' = Commit(d, p)
    /\ Cardinality(dialog'.parentQueries) <= MaxQueries

\* The user clicks or selects something.
Clicked ==
    /\ clicks < MaxClicks
    /\ clicks' = clicks + 1

\* A click on the page changes its state to p.
Shown(p) ==
    /\ Clicked
    /\ Settled(p, dialog)
    /\ UNCHANGED << geography, submitted, service >>

\* "Add Agent" is clicked on the page.
AddAgent ==
    /\ ~page.formDialogOpen
    /\ Shown(handleAddAgent(page))

\* "Edit" is clicked for the selected agent.
EditAgent ==
    /\ ~page.formDialogOpen
    /\ \E a \in DOMAIN agents : Shown(handleEditAgent(page, a))

\* "Add child" is clicked for the selected agent.
AddChildAgent ==
    /\ ~page.formDialogOpen
    /\ \E a \in DOMAIN agents : Shown(handleAddChildAgent(page, a))

\* onOpenChange(false): Cancel, Escape or a click outside the dialog.
Close ==
    /\ page.formDialogOpen
    /\ Shown([page EXCEPT !.formDialogOpen = FALSE])

\* The network answers and the dialog state becomes d.
Set(d) ==
    /\ Settled(page, d)
    /\ UNCHANGED << geography, submitted, clicks, service >>

\* The user changes the dialog state to d.
Edit(d) ==
    /\ Clicked
    /\ Settled(page, d)
    /\ UNCHANGED << geography, submitted, service >>

\* Lines 143-144: the panchayath query is answered; data is null when it failed.
PanchayathsFetched ==
    /\ dialog.loading
    /\ \E failed \in BOOLEAN :
          Set([dialog EXCEPT !.loading = FALSE, !.listed = TRUE,
                             !.panchayaths = IF failed THEN <<>> ELSE geography])

\* The active agents of a role in a panchayath (lines 195-201, 218-224).
ParentsIn(q) ==
    { a \in DOMAIN agents : /\ agents[a].panchayath_id = q.panchayath_id
                            /\ agents[a].role = q.role
                            /\ agents[a].is_active }

\* Lines 203 and 226: a parent query is answered.
ParentAgentsFetched ==
    \E q \in dialog.parentQueries, failed \in BOOLEAN :
        Set([dialog EXCEPT !.parentQueries = @ \ {q},
                           !.potentialParents = IF failed THEN {} ELSE ParentsIn(q)])

\* Lines 373 and 404: the single form is on screen.
ShowsSingle ==
    page.formDialogOpen /\ (isEditing(page) \/ dialog.activeTab = "single")

\* Lines 392 and 419: the bulk form is on screen.
ShowsBulk ==
    page.formDialogOpen /\ ~isEditing(page) /\ dialog.activeTab = "bulk"

\* Line 392: a tab is chosen.
SetActiveTab ==
    /\ page.formDialogOpen
    /\ ~isEditing(page)
    /\ \E tab \in {"single", "bulk"} :
          /\ tab # dialog.activeTab
          /\ Edit([dialog EXCEPT !.activeTab = tab])

\* The ids of the loaded panchayaths, the options of the panchayath select.
PanchayathOptions == { dialog.panchayaths[i].id : i \in DOMAIN dialog.panchayaths }

\* The options of a ward select.
WardChoices == { dialog.wardOptions[i] : i \in DOMAIN dialog.wardOptions }

\* Lines 691-714.
SetSingleRole ==
    /\ ShowsSingle
    /\ \E role \in Roles \ {dialog.single.role} :
          Edit([dialog EXCEPT !.single.role = role])

\* Lines 716-739.
SetSinglePanchayath ==
    /\ ShowsSingle
    /\ \E id \in PanchayathOptions \ {dialog.single.panchayath_id} :
          Edit([dialog EXCEPT !.single.panchayath_id = id])

\* Lines 742-769: the options are wardOptions.
SetSingleWard ==
    /\ ShowsSingle
    /\ \E ward \in WardChoices \ {dialog.single.ward} :
          Edit([dialog EXCEPT !.single.ward = ward])

\* Lines 771-807: shown unless the role is team_leader.
SetSingleParent ==
    /\ ShowsSingle
    /\ singleNeedsParent(dialog)
    /\ \E a \in dialog.potentialParents \ {dialog.single.parent_agent_id} :
          Edit([dialog EXCEPT !.single.parent_agent_id = a])

\* Lines 809-828: shown for the role pro.
SetSingleCustomers ==
    /\ ShowsSingle
    /\ dialog.single.role = "pro"
    /\ \E n \in Counts \ {dialog.single.customer_count} :
          Edit([dialog EXCEPT !.single.customer_count = n])

\* Lines 451-474.
SetBulkRole ==
    /\ ShowsBulk
    /\ \E role \in Roles \ {dialog.bulk.role} :
          Edit([dialog EXCEPT !.bulk.role = role])

\* Lines 426-449.
SetBulkPanchayath ==
    /\ ShowsBulk
    /\ \E id \in PanchayathOptions \ {dialog.bulk.panchayath_id} :
          Edit([dialog EXCEPT !.bulk.panchayath_id = id])

\* Lines 477-513: shown unless the role is team_leader.
SetBulkParent ==
    /\ ShowsBulk
    /\ bulkNeedsParent(dialog)
    /\ \E a \in dialog.potentialParents \ {dialog.bulk.parent_agent_id} :
          Edit([dialog EXCEPT !.bulk.parent_agent_id = a])

\* Lines 565-586: the options are wardOptions.
SetRowWard ==
    /\ ShowsBulk
    /\ \E i \in DOMAIN dialog.bulk.agents :
          \E ward \in WardChoices \ {dialog.bulk.agents[i].ward} :
              Edit([dialog EXCEPT !.bulk.agents[i].ward = ward])

\* Lines 588-609: shown for the role pro.
SetRowCustomers ==
    /\ ShowsBulk
    /\ dialog.bulk.role = "pro"
    /\ \E i \in DOMAIN dialog.bulk.agents :
          \E n \in Counts \ {dialog.bulk.agents[i].customer_count} :
              Edit([dialog EXCEPT !.bulk.agents[i].customer_count = n])

\* Line 523: append(...)
append(rows, row) == Append(rows, row)

\* remove(index)
remove(rows, index) ==
    [i \in 1..(Len(rows) - 1) |-> IF i < index THEN rows[i] ELSE rows[i + 1]]

\* Line 617 without its guard.
RemoveUnguarded(rows, index) == remove(rows, index)

\* Line 617: fields.length > 1 && remove(index)
RemoveClicked(rows, index) ==
    IF Len(rows) > 1 THEN remove(rows, index) ELSE rows

\* "Add Row" is clicked.
AddRow ==
    /\ ShowsBulk
    /\ Len(dialog.bulk.agents) < MaxRows
    /\ Edit([dialog EXCEPT !.bulk.agents = append(@, EmptyRow)])

\* The remove button of a row is clicked.
RemoveRow ==
    /\ ShowsBulk
    /\ \E i \in DOMAIN dialog.bulk.agents :
          Edit([dialog EXCEPT !.bulk.agents = RemoveClicked(@, i)])

\* Lines 43-51: whether the single form's values pass the schema.
singleAgentSchema(values) ==
    /\ values.role \in Roles
    /\ values.panchayath_id # ""
    /\ values.ward # <<>>
    /\ values.customer_count >= 0

\* Lines 53-63: whether the bulk form's values pass the schema.
bulkAgentSchema(values) ==
    /\ values.panchayath_id # ""
    /\ values.role \in Roles
    /\ Len(values.agents) >= 1
    /\ \A i \in DOMAIN values.agents :
          values.agents[i].ward # <<>> /\ values.agents[i].customer_count >= 0

\* The single form's values handed on as they are.
SingleValuesAsTyped(values) == values

\* Lines 267-275: the values of the single form as onSubmitSingle hands them on.
SingleValues(values) ==
    [values EXCEPT
        !.parent_agent_id = IF values.role = "team_leader" THEN NoAgentId ELSE @,
        !.customer_count = IF values.role # "pro" THEN 0 ELSE @]

\* A row made of the bulk values as they are.
RowAsTyped(values, agent) ==
    [role |-> values.role, panchayath_id |-> values.panchayath_id, ward |-> agent.ward,
     parent_agent_id |-> values.parent_agent_id,
     customer_count |-> agent.customer_count]

\* Lines 327-336: one row of agentsToInsert.
RowToInsert(values, agent) ==
    [role |-> values.role, panchayath_id |-> values.panchayath_id, ward |-> agent.ward,
     parent_agent_id |-> IF values.role = "team_leader" THEN NoAgentId
                         ELSE values.parent_agent_id,
     customer_count |-> IF values.role = "pro" THEN agent.customer_count ELSE 0]

agentsToInsert(values) ==
    [i \in DOMAIN values.agents |-> RowToInsert(values, values.agents[i])]

\* Lines 277-299: the store operation of onSubmitSingle.
SingleSubmission(p, values) ==
    IF isEditing(p)
    THEN [kind |-> "update", id |-> p.editingAgent, rows |-> << SingleValues(values) >>]
    ELSE [kind |-> "insert", id |-> NoAgentId, rows |-> << SingleValues(values) >>]

\* Lines 338-340: the store operation of onSubmitBulk.
BulkSubmission(values) ==
    [kind |-> "insert", id |-> NoAgentId, rows |-> agentsToInsert(values)]

\* The form hands op to the store and waits for its answer.
Submitting(op) ==
    /\ ~dialog.isSubmitting
    /\ submitted' = op
    /\ Clicked
    /\ Settled(page, [dialog EXCEPT !.isSubmitting = TRUE])
    /\ UNCHANGED << geography, service >>

\* Lines 264-299: the single form is submitted and passes validation.
SubmitSingle ==
    /\ ShowsSingle
    /\ singleAgentSchema(dialog.single)
    /\ Submitting(SingleSubmission(page, dialog.single))

\* Lines 320-340: the bulk form is submitted and passes validation.
SubmitBulk ==
    /\ ShowsBulk
    /\ bulkAgentSchema(dialog.bulk)
    /\ Submitting(BulkSubmission(dialog.bulk))

\* Lines 300-317 and 342-357: the store answers; the dialog closes on success.
Saved ==
    /\ dialog.isSubmitting
    /\ \E failed \in BOOLEAN :
          Settled([page EXCEPT !.formDialogOpen = IF failed THEN @ ELSE FALSE],
                  [dialog EXCEPT !.isSubmitting = FALSE])
    /\ submitted' = NoSubmission
    /\ UNCHANGED << geography, clicks, service >>

NextForm ==
    \/ AddAgent
    \/ EditAgent
    \/ AddChildAgent
    \/ Close
    \/ PanchayathsFetched
    \/ ParentAgentsFetched
    \/ SetActiveTab
    \/ SetSingleRole
    \/ SetSinglePanchayath
    \/ SetSingleWard
    \/ SetSingleParent
    \/ SetSingleCustomers
    \/ SetBulkRole
    \/ SetBulkPanchayath
    \/ SetBulkParent
    \/ SetRowWard
    \/ SetRowCustomers
    \/ AddRow
    \/ RemoveRow
    \/ SubmitSingle
    \/ SubmitBulk
    \/ Saved

\* The page and its agent form, with the store answering when it pleases.
SpecForm == Init /\ [][NextForm]_vars

\* The characters of the ward attributes tried, and their greatest length.
WardAlphabet == Str(<<"0", "2", "5", " ", "-", "w">>)

MaxWardLen == 2

FiveWards == Str(<<"5", " ", "w", "a", "r", "d", "s">>)

WardTexts ==
    UNION { [1..n -> Elements(WardAlphabet)] : n \in 0..MaxWardLen } \cup { FiveWards }

\* The ward attribute of a panchayath: null or a text.
WardAttributes == { JNull } \cup { JString(t) : t \in WardTexts }

\* A deployment with one panchayath, of any ward attribute.
InitWards ==
    /\ now = 0
    /\ call = NoCall
    /\ InitStore
    /\ requests = [r \in Requests |-> NoRequest]
    /\ geography \in { << Panchayath("pa", ward) >> : ward \in WardAttributes }
    /\ page = InitPage
    /\ dialog = Commit(Mounted(InitPage), InitPage)
    /\ submitted = NoSubmission
    /\ clicks = 0

NextWards ==
    \/ AddAgent
    \/ PanchayathsFetched
    \/ SetActiveTab
    \/ SetSinglePanchayath
    \/ SetBulkPanchayath

\* The ward effects run for every ward attribute.
SpecWards == InitWards /\ [][NextWards]_vars

(***************************************************************************)
(* Properties of verifyAdminToken (checked under SpecVerify)               *)
(***************************************************************************)

\* The two parts of a credential as the specification splits it: the text before
\* the first "." and all the text after it.
SpecPayloadPart(token) ==
    SubSeq(token, 1, IndexOf(token, FullStop, 1) - 1)

SpecSignaturePart(token) ==
    SubSeq(token, IndexOf(token, FullStop, 1) + 1, Len(token))

\* The call under study presented a credential whose payload segment decodes to a
\* full payload whose exp is not before the instant of the call.
Unexpired ==
    call.made /\ call.shape \in DecodableShapes /\ call.payload.exp >= call.at

\* C1: every credential built as base64(JSON{admin_id, user_id, division_id, exp})
\* + "." + hex(digest(JSON text + secret)) whose exp is not less than the instant of
\* the call (equality included) verifies and returns exactly the embedded fields.
C1_IssuedCredentialVerifies ==
    (call.made /\ call.shape = "issued" /\ call.payload.exp >= call.at)
        => /\ call.out.site = "accepted"
           /\ call.out.returned = PayloadValue(call.payload)

\* The part of C1 the code meets: the same statement for payloads of ASCII text.
IssuedAsciiCredentialVerifies ==
    (call.made /\ call.shape = "issued" /\ call.payload.exp >= call.at
        /\ IsAscii(call.payload.admin_id))
        => /\ call.out.site = "accepted"
           /\ call.out.returned = PayloadValue(call.payload)

\* C2: a credential whose payload exp is strictly less than the instant of the call
\* is rejected as expired whether or not its signature matches: the expiry is
\* decided before the signature is looked at.
C2_ExpiredBeforeSignature ==
    (call.made /\ call.shape \in DecodableShapes /\ call.payload.exp < call.at)
        => /\ call.out.returned = JNull
           /\ call.out.site = "expired"
           /\ call.out.log = "Token expired"

\* C2's case: an expired credential signed with another secret was reported expired.
C2_Witness ==
    /\ call.made
    /\ call.shape = "other_secret"
    /\ call.payload.exp < call.at
    /\ call.out.site = "expired"

\* C3: a well-formed, unexpired credential whose signature part (all the text after
\* the first ".") differs from hex(digest(decoded payload text + secret)) is rejected
\* as an invalid signature; and a credential whose payload segment was altered after
\* signing never verifies.
C3_SignatureMismatchRejected ==
    Unexpired
        => /\ (SpecSignaturePart(call.token)
                  # expectedSignature(atob(SpecPayloadPart(call.token)).text, ServiceKey))
              => call.out.site = "invalid_signature"
           /\ (SpecPayloadPart(call.token) # PayloadSegment(PayloadJson(call.payload)))
              => call.out.site # "accepted"

\* C4: the signature part is all the text after the first ".", so an issued
\* credential with "." and more text appended is rejected.
C4_TrailingTextRejected ==
    (call.made /\ call.shape = "trailing_segment") => call.out.site # "accepted"

\* C5: verifyAdminToken never throws: a credential with no ".", with an empty part,
\* with a payload that is not base64 or not JSON is answered with null, and an
\* exception raised while decoding or parsing becomes a null too.
C5_NeverThrows ==
    call.made
        => /\ ~call.out.threw
           /\ call.shape \in StructureShapes
              => (call.out.returned = JNull /\ call.out.site \in {"missing_part", "catch"})

\* C5's case: atob threw on the payload segment and the call returned null.
C5_Witness ==
    /\ call.made
    /\ call.shape = "bad_base64"
    /\ call.out.site = "catch"
    /\ call.out.returned = JNull

\* C6: a credential whose payload lacks exp, or has a text for it, is rejected even
\* when its signature matches the payload text.
C6_MissingFieldRejected ==
    (call.made /\ call.shape \in FieldShapes) => call.out.site # "accepted"

\* The reason the specification gives for rejecting the credential of shape sh made
\* from p and presented at instant t ("none" where this model names none).
RejectionReason(sh, p, t) ==
    IF sh \in StructureShapes THEN "MALFORMED"
    ELSE IF sh \in DecodableShapes /\ p.exp < t THEN "EXPIRED"
    ELSE IF sh \in ForgedShapes THEN "INVALID_SIGNATURE"
    ELSE "none"

\* What the caller of verifyAdminToken gets to see of an outcome.
Observed(o) == o.returned

\* C7: a malformed, an expired and a wrongly signed credential give three different
\* results: whatever credential of another rejection reason is presented at the
\* same instant, the caller sees another result than the one of this call.
C7_ReasonsDistinguished ==
    call.made
        => \A sh \in Shapes :
              ( /\ RejectionReason(call.shape, call.payload, call.at) # "none"
                /\ RejectionReason(sh, call.payload, call.at) # "none"
                /\ RejectionReason(sh, call.payload, call.at)
                      # RejectionReason(call.shape, call.payload, call.at) )
              => Observed(verifyAdminToken(Craft(sh, call.payload), ServiceKey, call.at))
                    # Observed(call.out)

(***************************************************************************)
(* Properties of the request handler (checked under Spec)                  *)
(***************************************************************************)

\* The admins query of request q was answered without a usable record: the query
\* failed, matched no row, or the row has is_active = false.
FoundNoActiveAdmin(q) ==
    /\ Len(q.ops) >= 1
    /\ q.adminError \/ ~q.admin.found \/ ~q.admin.is_active

\* The response a request gets whose token does not verify.
TokenRejection ==
    Arrived([NoRequest EXCEPT !.method = "POST", !.credential = "forged"], now).response

\* C9: a request whose credential verified but whose admin record is missing,
\* failed to load or is inactive is answered 401 before its body is read, having
\* issued no query on programs or questions and no write, and its response differs
\* from the one given for a token that does not verify.
C9_InactiveAdminRejected ==
    \A r \in Requests :
        FoundNoActiveAdmin(requests[r])
            => /\ requests[r].pc = "done"
               /\ requests[r].response.status = 401
               /\ requests[r].response # TokenRejection
               /\ ~requests[r].bodyRead
               /\ requests[r].ops = << AdminsSelect >>

\* C9's case: a request with a good credential found its admin record inactive and
\* was answered 401; another found no record at all.
C9_Witness ==
    \E r, o \in Requests :
        /\ requests[r].credential = "valid"
        /\ requests[r].admin.found
        /\ ~requests[r].admin.is_active
        /\ requests[r].response.status = 401
        /\ requests[o].credential = "orphan"
        /\ requests[o].adminError
        /\ requests[o].response.status = 401

\* The admin record of that id exists and is active in the store.
AdminUsable(id) ==
    /\ SelectSingle(admins, id.s, NoAdmin).found
    /\ SelectSingle(admins, id.s, NoAdmin).is_active

\* In this step the store applies the insert, update or delete of request r.
AppliesWrite(r) ==
    /\ requests[r].pc \in {"insert", "update", "delete"}
    /\ requests'[r].response.success

\* In this step the admins query of request r is answered.
AnswersAdminQuery(r) ==
    /\ requests[r].pc = "admin"
    /\ requests'[r].pc # "admin"

\* C10: no insert, update or delete of a question is applied to the store at a
\* moment when the record of the requesting admin is missing or inactive, and a
\* request whose admin is looked up while the record is missing or inactive is
\* rejected, whatever earlier requests with the same credential were answered.
C10_UsableOnlyWhileActive ==
    [][\A r \in Requests :
          /\ AppliesWrite(r) => AdminUsable(requests[r].adminId)
          /\ (AnswersAdminQuery(r) /\ ~AdminUsable(requests[r].adminId))
                => requests'[r].response.status = 401]_vars

\* The part of C10 the code meets: every request looks the admin up again, and one
\* that finds the record missing or inactive is rejected and writes nothing.
EveryRequestRechecksAdmin ==
    [][\A r \in Requests :
          (AnswersAdminQuery(r) /\ ~AdminUsable(requests[r].adminId))
              => /\ requests'[r].response.status = 401
                 /\ requests'[r].pc = "done"]_vars

\* Whether request q has issued the store operation op.
HasOp(q, op) ==
    \E i \in 1..Len(q.ops) : q.ops[i] = op

WriteOps == { QuestionsInsert, QuestionsUpdate, QuestionsDelete }

\* Request q has issued no insert, update or delete.
WroteNothing(q) ==
    \A i \in 1..Len(q.ops) : q.ops[i] \notin WriteOps

\* The program that owns the target of request q, as the store holds it.
OwningProgram(q) ==
    SelectSingle(programs, TargetProgram(q), NoProgram)

\* Request q asked for access to a program of another division than its admin's.
ForeignDivision(q) ==
    /\ HasOp(q, ProgramsSelect)
    /\ OwningProgram(q).found
    /\ OwningProgram(q).division_id # q.admin.division_id

\* C11: for list, create, update and delete alike, when the program that owns the
\* target is of another division than the admin's, the response is 403 (not the
\* 401 of an authentication failure), it carries no question, and no question is
\* queried for the list, inserted, updated or deleted.
C11_ForeignDivisionForbidden ==
    \A r \in Requests :
        ForeignDivision(requests[r])
            => /\ requests[r].pc = "done"
               /\ requests[r].response.status = 403
               /\ ~requests[r].response.success
               /\ requests[r].response.rows = {}
               /\ WroteNothing(requests[r])
               /\ requests[r].ops[Len(requests[r].ops)] = ProgramsSelect

\* C11's case: an update of a question of a program of the other division and a
\* list of that program were both answered 403.
C11_Witness ==
    \E r, o \in Requests :
        /\ RequestAction(requests[r]) = JString(UpdateText)
        /\ RequestAction(requests[o]) = JString(ListText)
        /\ ForeignDivision(requests[r])
        /\ ForeignDivision(requests[o])
        /\ requests[r].response.status = 403
        /\ requests[o].response.status = 403

\* The admins query of request q found the record, and found it active.
AdminAccepted(q) ==
    /\ HasOp(q, AdminsSelect)
    /\ ~q.adminError
    /\ q.admin.found
    /\ q.admin.is_active

\* C12: a request of an active, authenticated admin that names a resource the
\* store does not hold is answered 404: a list or create whose program_id matches
\* no program, an update or delete whose id matches no question.
C12_AbsentResourceNotFound ==
    \A r \in Requests :
        /\ ( /\ AdminAccepted(requests[r])
             /\ RequestAction(requests[r]) \in {JString(ListText), JString(CreateText)}
             /\ HasOp(requests[r], ProgramsSelect)
             /\ ~OwningProgram(requests[r]).found )
           => requests[r].response.status = 404
        /\ ( /\ AdminAccepted(requests[r])
             /\ RequestAction(requests[r]) \in {JString(UpdateText), JString(DeleteText)}
             /\ HasOp(requests[r], QuestionsSelect)
             /\ ~requests[r].existing.found )
           => requests[r].response.status = 404

\* The part of C12 the code meets: an update or delete whose id matches no question
\* is answered 404 and writes nothing.
AbsentQuestionNotFound ==
    \A r \in Requests :
        ( /\ RequestAction(requests[r]) \in {JString(UpdateText), JString(DeleteText)}
          /\ HasOp(requests[r], QuestionsSelect)
          /\ ~requests[r].existing.found )
        => /\ requests[r].response.status = 404
           /\ WroteNothing(requests[r])

\* The input of request q is malformed: its body is not JSON or not an object with
\* an action, the action is none of the four, a list or create names no program,
\* an update or delete names no question, or a create within the admin's division
\* (one whose access to the program was not refused) has a question_text that is
\* empty once trimmed.
MalformedInput(q) ==
    /\ q.bodyRead
    /\ \/ ~q.body.ok
       \/ q.body.v.t # "object"
       \/ ~Truthy(RequestAction(q))
       \/ RequestAction(q) \notin { JString(ListText), JString(CreateText),
                                    JString(UpdateText), JString(DeleteText) }
       \/ /\ RequestAction(q) \in {JString(ListText), JString(CreateText)}
          /\ programId(q) = <<>>
       \/ /\ RequestAction(q) \in {JString(UpdateText), JString(DeleteText)}
          /\ questionId(q) = <<>>
       \/ /\ RequestAction(q) = JString(CreateText)
          /\ insertText(q) = <<>>
          /\ HasOp(q, ProgramsSelect)
          /\ OwningProgram(q).found
          /\ OwningProgram(q).division_id = q.admin.division_id
          /\ q.response.status # 403

\* C13: every request of an active, authenticated admin whose input is malformed is
\* answered 400 and issues no insert, update or delete.
C13_MalformedInputIs400 ==
    \A r \in Requests :
        (AdminAccepted(requests[r]) /\ MalformedInput(requests[r]))
            => /\ requests[r].pc = "done"
               /\ requests[r].response.status = 400
               /\ WroteNothing(requests[r])

\* The part of C13 the code meets: whatever the malformed input, no insert, update
\* or delete is issued, and the answer is 400 unless the body is not a JSON object.
MalformedInputWritesNothing ==
    \A r \in Requests :
        (AdminAccepted(requests[r]) /\ MalformedInput(requests[r]))
            => /\ requests[r].pc = "done"
               /\ WroteNothing(requests[r])
               /\ (requests[r].body.ok /\ requests[r].body.v.t = "object")
                     => requests[r].response.status = 400

\* How many times request q has issued the store operation op.
TimesIssued(q, op) ==
    Cardinality({ i \in 1..Len(q.ops) : q.ops[i] = op })

\* The store reported an error for the list query, insert, update or delete of q.
StoreReportedError(q) ==
    q.storeError # ""

\* C14: when the store reports an error for the list query or for the insert,
\* update or delete, the response body carries the store's message unchanged and no
\* success flag, and the failed operation was issued exactly once.
C14_StoreErrorSurfacedOnce ==
    \A r \in Requests :
        StoreReportedError(requests[r])
            => /\ requests[r].pc = "done"
               /\ requests[r].response.error = requests[r].storeError
               /\ ~requests[r].response.success
               /\ requests[r].response.rows = {}
               /\ TimesIssued(requests[r], requests[r].ops[Len(requests[r].ops)]) = 1

\* C14's case: a list query and an insert failed with different messages.
C14_Witness ==
    \E r, o \in Requests :
        /\ StoreReportedError(requests[r])
        /\ StoreReportedError(requests[o])
        /\ requests[r].storeError # requests[o].storeError
        /\ HasOp(requests[r], QuestionsInsert)
        /\ RequestAction(requests[o]) = JString(ListText)

\* The operations that carry out an action: the list query and the three writes.
IsExecution(q, i) ==
    \/ q.ops[i] \in WriteOps
    \/ q.ops[i] = QuestionsSelect /\ RequestAction(q) = JString(ListText)

\* The store operations of request q came in the order of the pipeline: the admins
\* query first; the programs query only for an accepted admin whose body was read;
\* the action last, right after a programs query that found the program in the
\* admin's division.
InPipelineOrder(q) ==
    /\ q.ops # <<>> => q.ops[1] = AdminsSelect
    /\ \A i \in 2..Len(q.ops) : q.ops[i] # AdminsSelect
    /\ Len(q.ops) >= 2 => (AdminAccepted(q) /\ q.bodyRead)
    /\ q.bodyRead => AdminAccepted(q)
    /\ \A i \in 1..Len(q.ops) :
          IsExecution(q, i)
              => /\ i = Len(q.ops)
                 /\ i >= 3
                 /\ q.ops[i - 1] = ProgramsSelect
                 /\ OwningProgram(q).found
                 /\ OwningProgram(q).division_id = q.admin.division_id

\* A request other than a preflight that is answered without the valid credential
\* of an active admin gets 401, its body unread.
RejectedUnauthenticated(q) ==
    (q.pc = "done" /\ q.method = "POST" /\ ~AdminAccepted(q))
        => /\ q.response.status = 401
           /\ ~q.bodyRead
           /\ Len(q.ops) <= 1

\* C15: every request goes through the fixed order (credential, admin status,
\* owning program's division, comparison, action); once a step has answered the
\* request nothing more is done for it; and a request without the valid credential
\* of an active admin gets 401, never 400, 403 or 404, whatever its body.
C15_FixedOrder ==
    [][\A r \in Requests :
          /\ InPipelineOrder(requests'[r])
          /\ RejectedUnauthenticated(requests'[r])
          /\ requests[r].pc = "done" => requests'[r] = requests[r]]_vars

\* C15's case: one request was turned away for its credential, another went
\* through the whole order to its update.
C15_Witness ==
    \E r, o \in Requests :
        /\ requests[r].pc = "done"
        /\ requests[r].credential = "forged"
        /\ requests[r].response.status = 401
        /\ requests[o].ops = << AdminsSelect, QuestionsSelect, ProgramsSelect, QuestionsUpdate >>
        /\ requests[o].response.success

\* C16: a request with method OPTIONS is answered with the cross-origin headers
\* (any origin; allowed headers authorization, x-client-info, apikey, content-type,
\* x-admin-token) and no body, whatever credential it carries or lacks, and without
\* any read or write of the store.
C16_PreflightAnswered ==
    \A r \in Requests :
        requests[r].method = "OPTIONS"
            => /\ requests[r].pc = "done"
               /\ requests[r].response.headers["Access-Control-Allow-Origin"] = << "*" >>
               /\ Elements(requests[r].response.headers["Access-Control-Allow-Headers"])
                     = { "authorization", "x-client-info", "apikey", "content-type",
                         "x-admin-token" }
               /\ ~requests[r].response.body
               /\ requests[r].ops = <<>>
               /\ ~requests[r].bodyRead

\* C16's case: a preflight without a credential and one with a credential that
\* does not verify were both answered.
C16_Witness ==
    \E r, o \in Requests :
        /\ requests[r].method = "OPTIONS"
        /\ requests[o].method = "OPTIONS"
        /\ requests[r].credential = "absent"
        /\ requests[o].credential = "forged"
        /\ requests[r].pc = "done"
        /\ requests[o].pc = "done"

(***************************************************************************)
(* Properties of the agent form (checked under SpecWards and SpecForm)     *)
(***************************************************************************)

\* A ward attribute read as a count: the whole text, white space at its ends
\* apart, is a decimal number.
CountOf(ward) ==
    IF ward.t = "string" THEN TrimmedToNumber(Trim(ward.s)) ELSE NotANumber

\* "1".."N" for a ward attribute that is the count N > 0, nothing otherwise.
CountedWards(count) ==
    IF ~count.nan /\ count.n > 0 THEN Wards(count.n) ELSE <<>>

\* The panchayaths selected in the two forms.
SelectedPanchayaths ==
    { dialog.single.panchayath_id, dialog.bulk.panchayath_id } \ {""}

\* C17: the ward options computed for a selected panchayath are "1".."N" for its
\* ward attribute read as the count N, and empty when the attribute is absent,
\* non-positive or not a number, text that only starts with digits included.
C17_WardOptionsAreTheCount ==
    \A id \in SelectedPanchayaths :
        dialog.wardOptions = CountedWards(CountOf(Find(geography, id).ward))

\* What does hold: the options are as C17 says for every attribute that is absent
\* or is a number as a whole.
WardOptionsOfWholeNumbers ==
    \A id \in SelectedPanchayaths :
        (Find(geography, id).ward = JNull \/ ~CountOf(Find(geography, id).ward).nan)
            => dialog.wardOptions = CountedWards(CountOf(Find(geography, id).ward))

\* A panchayath whose ward attribute is a positive count is selected.
WholeNumberSelected ==
    \E id \in SelectedPanchayaths :
        /\ ~CountOf(Find(geography, id).ward).nan
        /\ Len(dialog.wardOptions) > 1

\* The chain of roles as C18 spells it out: each role with the one after it and
\* the one before it.
RoleAfter ==
    [r \in Roles |-> CASE r = "team_leader" -> "coordinator"
                       [] r = "coordinator" -> "group_leader"
                       [] r = "group_leader" -> "pro"
                       [] OTHER -> NoRole]

RoleBefore ==
    [r \in Roles |-> CASE r = "pro" -> "group_leader"
                       [] r = "group_leader" -> "coordinator"
                       [] r = "coordinator" -> "team_leader"
                       [] OTHER -> NoRole]

\* This step is "Add child" clicked for agent a.
AddsChildOf(a) ==
    /\ ~page.formDialogOpen
    /\ Shown(handleAddChildAgent(page, a))

\* The form is open in create mode, both forms preset to role and parent.
OpenForChild(p, d, role, parent) ==
    /\ p.formDialogOpen
    /\ ~isEditing(p)
    /\ p.defaultRole = role
    /\ p.defaultParentId = parent
    /\ d.single.role = role
    /\ d.single.parent_agent_id = parent
    /\ d.bulk.role = role
    /\ d.bulk.parent_agent_id = parent

\* Each form offers as parents the agents of the role before its own, and shows
\* no parent select for team_leader.
ParentRoleOffered(d) ==
    /\ singleParentRole(d) = RoleBefore[d.single.role]
    /\ bulkParentRole(d) = RoleBefore[d.bulk.role]
    /\ singleNeedsParent(d) = (RoleBefore[d.single.role] # NoRole)
    /\ bulkNeedsParent(d) = (RoleBefore[d.bulk.role] # NoRole)

\* C18: "Add child" on an agent of role r opens the form in create mode with the
\* role after r as default role and the agent's id as default parent; on an agent
\* of the last role, pro, it opens nothing and leaves the page and the dialog as
\* they are. The parent role a form offers is the role before its own, none for
\* team_leader.
C18_AddChildOpensChildForm ==
    [][/\ \A a \in DOMAIN agents :
             AddsChildOf(a) =>
                 IF agents[a].role = "pro"
                 THEN page' = page /\ dialog' = dialog
                 ELSE OpenForChild(page', dialog', RoleAfter[agents[a].role], a)
       /\ ParentRoleOffered(dialog')]_vars

\* "Add child" was clicked for the team leader t1: the form is open for a
\* coordinator under t1.
C18_Witness ==
    /\ OpenForChild(page, dialog, "coordinator", "t1")
    /\ singleParentRole(dialog) = "team_leader"

\* The rows the form has handed to the store.
SubmittedRows == { submitted.rows[i] : i \in DOMAIN submitted.rows }

\* C19: every row the form submits (single create, single edit, bulk create) with
\* role team_leader has no parent, and every submitted row whose role is not pro
\* has customer_count 0, whatever the form fields held.
C19_SubmittedRowsNormalised ==
    \A row \in SubmittedRows :
        /\ row.role = "team_leader" => row.parent_agent_id = NoAgentId
        /\ row.role # "pro" => row.customer_count = 0

\* An agent with a parent and customers was edited into a team leader: the form
\* still holds the parent and the count, the submitted row does not.
C19_Witness ==
    /\ submitted.kind = "update"
    /\ \E row \in SubmittedRows : row.role = "team_leader"
    /\ dialog.single.parent_agent_id # NoAgentId
    /\ dialog.single.customer_count > 0

\* The same for a bulk submission: rows of team leaders from a form preset with a
\* parent by "Add child".
BulkTeamLeadersSubmitted ==
    /\ submitted.kind = "insert"
    /\ ShowsBulk
    /\ \E row \in SubmittedRows : row.role = "team_leader"
    /\ dialog.bulk.parent_agent_id # NoAgentId

\* The same for a single create.
SingleTeamLeaderCreated ==
    /\ submitted.kind = "insert"
    /\ ShowsSingle
    /\ \E row \in SubmittedRows : row.role = "team_leader"
    /\ dialog.single.parent_agent_id # NoAgentId

\* The bulk form and the store operation in flight hold at least one row.
RowsHeld(d, op) ==
    /\ Len(d.bulk.agents) >= 1
    /\ op.kind = "insert" => Len(op.rows) >= 1

\* C20: after any sequence of "Add Row", row removals and openings of the dialog
\* the bulk form holds at least one row: a removal at one row changes nothing,
\* and a bulk submission inserts at least one agent.
C20_BulkFormKeepsARow ==
    [][/\ RowsHeld(dialog, submitted)
       /\ RowsHeld(dialog', submitted')
       /\ (RemoveRow /\ Len(dialog.bulk.agents) = 1) => dialog'.bulk = dialog.bulk]_vars

\* A bulk submission of the one row the form holds is in flight.
C20_Witness ==
    /\ ShowsBulk
    /\ submitted.kind = "insert"
    /\ Len(submitted.rows) = 1
    /\ Len(dialog.bulk.agents) = 1

\* No removal is ever clicked at one row (violated: the click happens).
NoRemovalAtOneRow ==
    [][~(RemoveRow /\ Len(dialog.bulk.agents) = 1)]_vars

(***************************************************************************)
(* Frame properties of the request handler (checked under Spec)            *)
(***************************************************************************)

\* This step is a step of the handler of request r.
Handles(r) == requests'[r] # requests[r]

\* Request q was answered, and not with a 200.
Refused(q) == q.pc = "done" /\ q.response.status # 200

\* C21: a response other than a 200 leaves the question table as it was: every
\* 400 of validation, 401, 403 and 404 (and the 500) is produced with no insert,
\* update or delete issued, a refused request's last step changes no row, and no
\* step of a list request changes a row whatever its outcome.
C21_RefusalWritesNothing ==
    [][\A r \in Requests :
          /\ (Handles(r) /\ Refused(requests'[r])) => questions' = questions
          /\ (Refused(requests'[r]) /\ ~StoreReportedError(requests'[r]))
                => WroteNothing(requests'[r])
          /\ (Handles(r) /\ RequestAction(requests'[r]) = JString(ListText))
                => /\ questions' = questions
                   /\ WroteNothing(requests'[r])]_vars

\* C21's case: a create was refused for its blank text, a delete for its unknown
\* question, and the table is the one the function started with.
C21_Witness ==
    \E r, o \in Requests :
        /\ RequestAction(requests[r]) = JString(CreateText)
        /\ requests[r].response.status = 400
        /\ HasOp(requests[r], ProgramsSelect)
        /\ RequestAction(requests[o]) = JString(DeleteText)
        /\ requests[o].response.status = 404
        /\ questions[Question1] = QuestionRow(Program1, OldText)
        /\ questions[Question2] = QuestionRow(Program2, OldText)
        /\ ~questions[Question3].found

\* In this step the store applies the update of request r.
AppliesUpdate(r) ==
    /\ requests[r].pc = "update"
    /\ requests'[r].response.success

\* Whether the data of request q carries the field key.
Carries(q, key) == GetProp(RequestData(q), key) # JUndefined

\* The row old after an update that changed what the data of q carries among the
\* fields an update may change, and nothing else.
ChangedAsCarried(q, old, new) ==
    /\ new.found = old.found
    /\ new.program_id = old.program_id
    /\ new.question_text = IF Carries(q, QuestionTextName)
                           THEN Trim(ToStringJS(GetProp(RequestData(q), QuestionTextName)))
                           ELSE old.question_text
    /\ new.sort_order = IF Carries(q, SortOrderName)
                        THEN GetProp(RequestData(q), SortOrderName).n
                        ELSE old.sort_order

Stored == { q \in DOMAIN questions : questions[q].found }

\* C23: after any sequence of successful create and update requests every
\* question written through the endpoint has a question_text that is not empty
\* once trimmed: an update upholds the check made on create.
C23_TextNeverBlank ==
    \A q \in Stored : Trim(questions[q].question_text) # <<>>

\* In this step the store applies the insert of request r.
AppliesInsert(r) ==
    /\ requests[r].pc = "insert"
    /\ requests'[r].response.success

\* The part of C23 the code meets: a create stores a text that is not empty once
\* trimmed, and an update that sends no question_text leaves the text as it is.
CreateStoresText ==
    [][\A r \in Requests :
          /\ AppliesInsert(r)
                => \A q \in requests'[r].response.rows :
                       Trim(questions'[q].question_text) # <<>>
          /\ (AppliesUpdate(r) /\ ~Carries(requests[r], QuestionTextName))
                => questions'[questionId(requests[r])].question_text
                      = questions[questionId(requests[r])].question_text]_vars

\* In this step verifyProgramAccess answers request r.
DecidesAccess(r) ==
    /\ requests[r].pc = "access"
    /\ requests'[r].pc # "access"

\* The answer of request q is the 403 of the scope check.
DeniedAccess(q) ==
    /\ q.pc = "done"
    /\ q.response.status = 403
    /\ WroteNothing(q)

\* The credential of request q carries another division than the record of its
\* admin, as the request fetched it.
DivisionsDiffer(q) ==
    /\ q.admin.found
    /\ CredentialDivision(q) # q.admin.division_id

OfferedFor(a, row) ==
    a \in ParentsIn([panchayath_id |-> row.panchayath_id,
                     role |-> getParentRole(row.role)])

\* C25: every row the form submits with a parent_agent_id that is not null names
\* a parent offered for the row's final role and panchayath: an active agent whose
\* role is the parent role of the submitted role and whose panchayath is the
\* submitted panchayath, whatever the order of selecting role, panchayath and
\* parent, and for a default parent passed in by "Add child".
C25_SubmittedParentWasOffered ==
    \A row \in SubmittedRows :
        row.parent_agent_id # NoAgentId => OfferedFor(row.parent_agent_id, row)

\* The part of C25 the code meets: a parent changes only to one of the options
\* the last answered parent query gave.
ParentChosenFromOptions ==
    [][/\ (SetSingleParent => dialog'.single.parent_agent_id \in dialog.potentialParents)
       /\ (SetBulkParent => dialog'.bulk.parent_agent_id \in dialog.potentialParents)]_vars

\* The panchayath selected in the form on screen.
ShownPanchayath ==
    IF ShowsSingle THEN dialog.single.panchayath_id ELSE dialog.bulk.panchayath_id

\* The panchayath list has loaded and no effect is left to run.
LoadedAndSettled ==
    /\ page.formDialogOpen
    /\ ~dialog.loading
    /\ dialog.panchayaths # <<>>
    /\ dialog.rendered = Watched(dialog, page)

\* C26: once the panchayath list has loaded and all effects have run, the shared
\* wardOptions is the ward list of the panchayath selected in the form on screen:
\* the single form's in edit mode and on the single tab, the bulk form's on the
\* bulk tab; the other form's selection, or empty selection, never overwrites it.
C26_WardOptionsFollowShownForm ==
    LoadedAndSettled
        => dialog.wardOptions = WardOptionsFor(ShownPanchayath, dialog.panchayaths)

\* The part of C26 the code meets: wardOptions is the ward list of the single
\* form's panchayath or of the bulk form's, once the list has loaded and the
\* effects have run.
WardOptionsOfEitherForm ==
    LoadedAndSettled
        => dialog.wardOptions
              \in { WardOptionsFor(dialog.single.panchayath_id, dialog.panchayaths),
                    WardOptionsFor(dialog.bulk.panchayath_id, dialog.panchayaths) }

====
